---- MODULE Spec2Model ----
(***************************************************************************)
(* ThesisForge AI: the structured-generation layer of the service          *)
(* (runContentInjectionAgent, regenerateSpecificSections,                  *)
(* runAgentStepStructured) and the workflow stepper of the application.    *)
(*                                                                         *)
(* JavaScript strings are modelled as sequences of characters, one         *)
(* one-character string per element; a character outside ASCII is written *)
(* by its code point, "u53C2".  An absent (undefined) optional field is    *)
(* the value Undefined.                                                    *)
(***************************************************************************)
EXTENDS Integers, Sequences, FiniteSets, TLC

\* ------------------------------------------------------------------ bounds

\* Longest outline the generation passes are run on.
MaxSections == 5

\* Most level-1 sections (chapters) in such an outline.
MaxChapters == 2

\* ------------------------------------------------------- string primitives

\* String.prototype.includes
Includes(s, k) ==
    \E i \in 1..(Len(s) - Len(k) + 1) : SubSeq(s, i, i + Len(k) - 1) = k

\* String.prototype.startsWith
StartsWith(s, k) == Len(s) >= Len(k) /\ SubSeq(s, 1, Len(k)) = k

UpperChars ==
    <<"A", "B", "C", "D", "E", "F", "G", "H", "I", "J", "K", "L", "M",
      "N", "O", "P", "Q", "R", "S", "T", "U", "V", "W", "X", "Y", "Z">>

LowerChars ==
    <<"a", "b", "c", "d", "e", "f", "g", "h", "i", "j", "k", "l", "m",
      "n", "o", "p", "q", "r", "s", "t", "u", "v", "w", "x", "y", "z">>

\* String.prototype.toLowerCase
toLowerCase(s) ==
    [i \in 1..Len(s) |->
        IF \E j \in 1..26 : UpperChars[j] = s[i]
        THEN LowerChars[CHOOSE j \in 1..26 : UpperChars[j] = s[i]]
        ELSE s[i]]

IsWhitespace(c) == c \in {" ", "\n", "\t", "\r"}

\* String.prototype.trim
trim(s) ==
    LET keep == {i \in 1..Len(s) : ~IsWhitespace(s[i])}
    IN  IF keep = {} THEN <<>>
        ELSE SubSeq(s, CHOOSE i \in keep : \A j \in keep : i <= j,
                       CHOOSE i \in keep : \A j \in keep : j <= i)

\* The value of an optional field that is not set.
Undefined == <<"undefined">>

\* --------------------------------------------------------------- sections

\* ThesisSection: id, title, level, content?, visuals?
Section(id, title, level, content, visuals) ==
    [id |-> id, title |-> title, level |-> level,
     content |-> content, visuals |-> visuals]

\* JSON.parse(JSON.stringify(structure)): a new array of new section objects
\* carrying the same strings and numbers.
DeepCopy(structure) ==
    [i \in 1..Len(structure) |->
        Section(structure[i].id, structure[i].title, structure[i].level,
                structure[i].content, structure[i].visuals)]

\* The copy made by a pass is an object of its own: a write to it is not a
\* write to the caller's outline.
CopyIsFresh == TRUE

NoChapter == [root |-> 0, children |-> <<>>]

\* The grouping loop: a level-1 section opens a chapter, every other section
\* joins the chapter that is open, and is dropped when none is.
RECURSIVE GroupChapters(_, _, _, _)
GroupChapters(structure, i, chapters, currentChapter) ==
    IF i > Len(structure)
    THEN IF currentChapter # NoChapter
         THEN Append(chapters, currentChapter) ELSE chapters
    ELSE IF structure[i].level = 1
         THEN GroupChapters(structure, i + 1,
                  IF currentChapter # NoChapter
                  THEN Append(chapters, currentChapter) ELSE chapters,
                  [root |-> i, children |-> <<>>])
         ELSE GroupChapters(structure, i + 1, chapters,
                  IF currentChapter # NoChapter
                  THEN [currentChapter EXCEPT !.children = Append(@, i)]
                  ELSE currentChapter)

\* Chapters as positions into the outline: root, then its children in order.
ChaptersOf(structure) == GroupChapters(structure, 1, <<>>, NoChapter)

\* sectionsToProcess: the children, or the root alone when it has none.
SectionsToProcess(chapter) ==
    IF Len(chapter.children) > 0 THEN chapter.children ELSE <<chapter.root>>

\* ------------------------------------------------------------- agent names

KwShiJue == <<"u89C6", "u89C9">>
KwVisuals == <<"V", "i", "s", "u", "a", "l", "s">>
KwVisualsFix == <<"V", "i", "s", "u", "a", "l", "s", " ", "F", "i", "x">>
KwJiaGouShi == <<"u67B6", "u6784", "u5E08">>
KwArchitect == <<"A", "r", "c", "h", "i", "t", "e", "c", "t">>

IsVisualsName(name) ==
    Includes(name, KwShiJue) \/ Includes(name, KwVisuals)
        \/ Includes(name, KwVisualsFix)

IsArchitectName(name) ==
    Includes(name, KwJiaGouShi) \/ Includes(name, KwArchitect)

NameArchitect ==
    <<"u67B6", "u6784", "u5E08", " ", "(", "A", "r", "c", "h", "i", "t",
      "e", "c", "t", ")">>
NamePlanner ==
    <<"u5185", "u5BB9", "u7B56", "u5212", " ", "(", "P", "l", "a", "n", "n",
      "e", "r", ")">>
NameVisuals ==
    <<"u89C6", "u89C9", "/", "u6570", "u636E", "u4E13", "u5BB6", " ", "(",
      "V", "i", "s", "u", "a", "l", "s", ")">>
NameChiefEditor ==
    <<"u603B", "u7F16", "u5BA1", " ", "(", "C", "h", "i", "e", "f", " ",
      "E", "d", "i", "t", "o", "r", ")">>
NameContentFix ==
    <<"C", "h", "i", "e", "f", " ", "E", "d", "i", "t", "o", "r", " ", "(",
      "C", "o", "n", "t", "e", "n", "t", " ", "F", "i", "x", ")">>
NameVisualsFix ==
    <<"C", "h", "i", "e", "f", " ", "E", "d", "i", "t", "o", "r", " ", "(",
      "V", "i", "s", "u", "a", "l", "s", " ", "F", "i", "x", ")">>

\* INITIAL_AGENTS, by id.
AgentArchitect == [id |-> "1", name |-> NameArchitect]
AgentPlanner == [id |-> "2", name |-> NamePlanner]
AgentVisuals == [id |-> "3", name |-> NameVisuals]
AgentFinal == [id |-> "final_draft", name |-> NameChiefEditor]

\* ---------------------------------------------------------- visuals filter

skipKeywords ==
    << <<"u6458", "u8981">>,
       <<"A", "b", "s", "t", "r", "a", "c", "t">>,
       <<"u81F4", "u8C22">>,
       <<"A", "c", "k", "n", "o", "w", "l", "e", "d", "g", "e", "m", "e",
         "n", "t">>,
       <<"u53C2", "u8003">>,
       <<"R", "e", "f", "e", "r", "e", "n", "c", "e">>,
       <<"u9644", "u5F55">>,
       <<"A", "p", "p", "e", "n", "d", "i", "x">>,
       <<"u76EE", "u5F55">>,
       <<"u603B", "u7ED3">>,
       <<"C", "o", "n", "c", "l", "u", "s", "i", "o", "n">>,
       <<"u5C55", "u671B">>,
       <<"O", "u", "t", "l", "o", "o", "k">> >>

\* skipKeywords.some(k => titleLower.includes(k.toLowerCase()))
MatchesSkipKeyword(title) ==
    \E n \in 1..Len(skipKeywords) :
        Includes(toLowerCase(title), toLowerCase(skipKeywords[n]))

\* ------------------------------------------------------ writes of a batch

\* structure.find(s => s.id === key): the first position holding the id, 0
\* when there is none.
FindById(structure, key) ==
    IF \E i \in 1..Len(structure) : structure[i].id = key
    THEN CHOOSE i \in 1..Len(structure) :
            /\ structure[i].id = key
            /\ \A j \in 1..(i - 1) : structure[j].id # key
    ELSE 0

\* contentStr.replace(/^#[^\n]*\n/, ''): the regular expression is anchored
\* at the first character of the untrimmed value and needs a line break.
RemoveHeadingLine(v) ==
    IF Len(v) > 0 /\ v[1] = "#" /\ \E p \in 1..Len(v) : v[p] = "\n"
    THEN LET p == CHOOSE q \in 1..Len(v) :
                    v[q] = "\n" /\ \A r \in 1..(q - 1) : v[r] # "\n"
         IN  SubSeq(v, p + 1, Len(v))
    ELSE v

\* The value stored as content for a returned value.
StoredContent(v) ==
    IF StartsWith(trim(v), <<"#">>) THEN trim(RemoveHeadingLine(v)) ELSE v

\* A variant of the write below that stores the value as the title too.
WriteSectionAndTitle(section, isVisuals, v) ==
    IF isVisuals THEN [section EXCEPT !.visuals = v, !.title = v]
    ELSE [section EXCEPT !.content = v, !.title = v]

\* The write of one returned pair into the section found for its key.
WriteSection(section, isVisuals, v) ==
    IF isVisuals THEN [section EXCEPT !.visuals = v]
    ELSE [section EXCEPT !.content = StoredContent(v)]

\* The loop over Object.entries(partialContent): every key is looked up in
\* the whole outline, and the section found, if any, is written.  Keys of an
\* object are distinct, so the writes touch distinct sections.
ApplyEntries(structure, isVisuals, map) ==
    [i \in 1..Len(structure) |->
        IF \E key \in DOMAIN map : FindById(structure, key) = i
        THEN WriteSection(structure[i], isVisuals, map[structure[i].id])
        ELSE structure[i]]

\* The caller's outline after the pass wrote `written` into its copy.
CallerAfterWrite(caller, written) ==
    IF CopyIsFresh THEN caller ELSE written

\* !s.visuals || s.visuals.trim() === ''  (content likewise)
IsMissing(section, isVisuals) ==
    LET v == IF isVisuals THEN section.visuals ELSE section.content
    IN  v = Undefined \/ v = <<>> \/ trim(v) = <<>>

\* isChapterCompletelyMissing
ChapterCompletelyMissing(structure, chapter, isVisuals) ==
    \A k \in 1..Len(SectionsToProcess(chapter)) :
        IsMissing(structure[SectionsToProcess(chapter)[k]], isVisuals)

\* The chapter is passed over without a call: the visuals filter on the
\* title of its root, then the gap-repair check.
ChapterSkipped(structure, chapter, isVisuals, onlyMiss) ==
    \/ isVisuals /\ MatchesSkipKeyword(structure[chapter.root].title)
    \/ onlyMiss /\ ~ChapterCompletelyMissing(structure, chapter, isVisuals)

\* A variant of the split that retries every section in a call of its own.
SplitIntoSingles(batch) == [k \in 1..Len(batch) |-> <<batch[k]>>]

\* Safety batch mode: chunkSize = ceil(n / 3), slices of chunkSize.
SplitChunks(batch) ==
    LET n == Len(batch)
        chunkSize == (n + 2) \div 3
        count == (n + chunkSize - 1) \div chunkSize
    IN  [k \in 1..count |->
            SubSeq(batch, (k - 1) * chunkSize + 1,
                   IF k * chunkSize < n THEN k * chunkSize ELSE n)]

\* ------------------------------------------------- outcomes of one call

\* Messages of the errors callLLM throws.
MsgUnauthorized ==
    <<"4", "0", "1", " ", "U", "n", "a", "u", "t", "h", "o", "r", "i", "z",
      "e", "d", ".", " ", "C", "h", "e", "c", "k", " ", "A", "P", "I", " ",
      "K", "e", "y", ".">>
MsgNotFound ==
    <<"4", "0", "4", " ", "N", "o", "t", " ", "F", "o", "u", "n", "d", ".",
      " ", "C", "h", "e", "c", "k", " ", "B", "a", "s", "e", " ", "U", "R",
      "L", ".">>
MsgTimeout ==
    <<"R", "e", "q", "u", "e", "s", "t", " ", "t", "i", "m", "e", "d", " ",
      "o", "u", "t", " ", "(", ">", "1", "5", " ", "m", "i", "n", "s", ")",
      ".">>
MsgNetwork ==
    <<"N", "e", "t", "w", "o", "r", "k", " ", "E", "r", "r", "o", "r", ":",
      " ", "C", "o", "u", "l", "d", " ", "n", "o", "t", " ", "c", "o", "n",
      "n", "e", "c", "t", " ", "t", "o", " ", "C", "u", "s", "t", "o", "m",
      " ", "A", "P", "I", ".">>
MsgEmpty ==
    <<"C", "u", "s", "t", "o", "m", " ", "A", "P", "I", " ", "r", "e", "t",
      "u", "r", "n", "e", "d", " ", "e", "m", "p", "t", "y", " ", "c", "o",
      "n", "t", "e", "n", "t">>
MsgQuota ==
    <<"G", "e", "m", "i", "n", "i", " ", "A", "P", "I", " ", "Q", "u", "o",
      "t", "a", " ", "E", "x", "c", "e", "e", "d", "e", "d", " ", "(", "4",
      "2", "9", ")", ".">>
\* `Custom API Error (${status}): ${errorText}`: the text is the server's.
MsgHttp500 ==
    <<"C", "u", "s", "t", "o", "m", " ", "A", "P", "I", " ", "E", "r", "r",
      "o", "r", " ", "(", "5", "0", "0", ")", ":", " ", "I", "n", "t", "e",
      "r", "n", "a", "l", " ", "S", "e", "r", "v", "e", "r", " ", "E", "r",
      "r", "o", "r">>
MsgHttp400 ==
    <<"C", "u", "s", "t", "o", "m", " ", "A", "P", "I", " ", "E", "r", "r",
      "o", "r", " ", "(", "4", "0", "0", ")", ":", " ", "W", "e", " ", "c",
      "o", "u", "l", "d", " ", "n", "o", "t", " ", "p", "a", "r", "s", "e",
      " ", "t", "h", "e", " ", "J", "S", "O", "N", " ", "b", "o", "d", "y",
      " ", "o", "f", " ", "y", "o", "u", "r", " ", "r", "e", "q", "u", "e",
      "s", "t", ".">>
\* response.json() on a body that is not JSON (a proxy's HTML page).
MsgBodyNotJson ==
    <<"U", "n", "e", "x", "p", "e", "c", "t", "e", "d", " ", "t", "o", "k",
      "e", "n", " ", "<", " ", "i", "n", " ", "J", "S", "O", "N", " ", "a",
      "t", " ", "p", "o", "s", "i", "t", "i", "o", "n", " ", "0">>
\* extractJson: `Fatal JSON Error. Raw Text Snippet: ${...}`
MsgFatalJson ==
    <<"F", "a", "t", "a", "l", " ", "J", "S", "O", "N", " ", "E", "r", "r",
      "o", "r", ".", " ", "R", "a", "w", " ", "T", "e", "x", "t", " ", "S",
      "n", "i", "p", "p", "e", "t", ":", " ">>

\* The errors of the gateway (callLLM), by the message each carries.
GatewayErrors ==
    {MsgUnauthorized, MsgNotFound, MsgTimeout, MsgNetwork, MsgEmpty,
     MsgQuota, MsgHttp500, MsgHttp400, MsgBodyNotJson}

KwJSON == <<"J", "S", "O", "N">>
KwFatalJson ==
    <<"F", "a", "t", "a", "l", " ", "J", "S", "O", "N", " ", "E", "r", "r",
      "o", "r">>
KwSyntaxError ==
    <<"S", "y", "n", "t", "a", "x", "E", "r", "r", "o", "r">>
KwSyntax == <<"S", "y", "n", "t", "a", "x">>

\* The test on the error of the whole-chapter call: split and retry?
TriggersSplit(errorMsg) ==
    Includes(errorMsg, KwFatalJson) \/ Includes(errorMsg, KwJSON)
        \/ Includes(errorMsg, KwSyntaxError)

\* A variant of the test below that looks for "Syntax" alone.
RetryIsCriticalUnlessSyntax(retryMsg) == ~Includes(retryMsg, KwSyntax)

\* The test on the error of a sub-batch call: rethrow?
RetryIsCritical(retryMsg) ==
    ~Includes(retryMsg, KwJSON) /\ ~Includes(retryMsg, KwSyntax)

\* What one gateway call followed by extractJson and the write loop can
\* come to: callLLM throws (kind "error"), extractJson throws ("malformed"),
\* extractJson returns a falsy value ("falsy": the text null, or an empty
\* text), or it returns an object whose entries are written ("object").
UnknownId == "s_unknown"

NewText == <<"n">>

\* Values the model returns for an id (JSON strings, as the write loop
\* takes them to be).
ResponseValues == {NewText}

KeysOf(structure) ==
    {structure[i].id : i \in 1..Len(structure)} \cup {UnknownId}

\* The key sets of the objects returned for a request that lists `batch`:
\* every requested id, every one but the last, none, and one id that was
\* not requested (of another section, or of no section), alone or with the
\* requested ones.
KeySets(structure, batch) ==
    LET requested == {structure[batch[k]].id : k \in 1..Len(batch)}
        others == KeysOf(structure) \ requested
    IN  {requested, requested \ {structure[batch[Len(batch)]].id}, {}}
        \cup {{f} : f \in others}
        \cup {requested \cup {f} : f \in others}

\* The objects extractJson returns for a request that lists `batch`, every
\* key with a value of `values`.
ParsedObjects(structure, batch, values) ==
    {[kind |-> "object", msg |-> <<>>, map |-> [k \in K |-> v]] :
            K \in KeySets(structure, batch), v \in values}

Responses(structure, batch) ==
    {[kind |-> "error", msg |-> m, map |-> <<>>] : m \in GatewayErrors}
    \cup {[kind |-> "malformed", msg |-> MsgFatalJson, map |-> <<>>],
          [kind |-> "falsy", msg |-> <<>>, map |-> <<>>]}
    \cup ParsedObjects(structure, batch, ResponseValues)

\* Values of a successfully parsed answer to a pass run again on sections
\* that are filled: text, a heading line alone, the empty string.
HeadingOnly == <<"#", " ", "T", "\n">>
RerunValues == {NewText, HeadingOnly, <<>>}

\* Values that open with a heading marker: a heading line and text, a
\* heading with no line break after it, a heading line after a blank, and
\* two heading lines before the text.
HeadingAndText == <<"#", " ", "T", "\n", "n">>
HeadingNoBreak == <<"#", "T">>
IndentedHeading == <<" ", "#", "T", "\n", "n">>
TwoHeadings == <<"#", "T", "\n", "#", "U", "\n", "n">>
HeadingValues ==
    {NewText, HeadingAndText, HeadingNoBreak, IndentedHeading, TwoHeadings}

\* ------------------------------------------------------------ JSON values

\* A value JSON.parse returns: its type and, by type, its number, its
\* characters, its elements, or its members in the order of their keys
\* (a member is [k |-> characters of the key, v |-> value]).
JValue(t, n, s, a, o) == [t |-> t, n |-> n, s |-> s, a |-> a, o |-> o]

JNull == JValue("null", 0, <<>>, <<>>, <<>>)

JBool(b) == JValue(IF b THEN "true" ELSE "false", 0, <<>>, <<>>, <<>>)

JNum(n) == JValue("number", n, <<>>, <<>>, <<>>)

JStr(s) == JValue("string", 0, s, <<>>, <<>>)

JArr(a) == JValue("array", 0, <<>>, a, <<>>)

JObj(o) == JValue("object", 0, <<>>, <<>>, o)

\* What a parsing step returns: the value and the position after it.
Parsed(v, pos) == [ok |-> TRUE, v |-> v, pos |-> pos]

ParseFail == [ok |-> FALSE, v |-> JNull, pos |-> 0]

\* JSON.parse, by recursive descent over the characters.  Numbers are
\* integers (no fraction, no exponent), escapes are the two-character ones.
IsJsonWs(c) == c \in {" ", "\n", "\r", "\t"}

RECURSIVE SkipWs(_, _)
SkipWs(t, p) ==
    IF p <= Len(t) /\ IsJsonWs(t[p]) THEN SkipWs(t, p + 1) ELSE p

Digits == <<"0", "1", "2", "3", "4", "5", "6", "7", "8", "9">>

IsDigit(c) == \E d \in 1..10 : Digits[d] = c

DigitOf(c) == (CHOOSE d \in 1..10 : Digits[d] = c) - 1

RECURSIVE ParseDigits(_, _, _)
ParseDigits(t, p, acc) ==
    IF p <= Len(t) /\ IsDigit(t[p])
    THEN ParseDigits(t, p + 1, acc * 10 + DigitOf(t[p]))
    ELSE [n |-> acc, pos |-> p]

ParseNumber(t, p) ==
    LET neg == t[p] = "-"
        q == IF neg THEN p + 1 ELSE p
    IN  IF q > Len(t) \/ ~IsDigit(t[q]) THEN ParseFail
        ELSE IF t[q] = "0" THEN Parsed(JNum(0), q + 1)
        ELSE LET d == ParseDigits(t, q, 0)
             IN  Parsed(JNum(IF neg THEN 0 - d.n ELSE d.n), d.pos)

\* The character an escape stands for.
EscapeLetters == {"\"", "\\", "/", "n", "r", "t"}

Unescape(c) ==
    CASE c = "n" -> "\n"
      [] c = "r" -> "\r"
      [] c = "t" -> "\t"
      [] OTHER -> c

\* The characters of a string, from the position after its opening quote.
RECURSIVE ParseChars(_, _, _)
ParseChars(t, p, acc) ==
    IF p > Len(t) THEN ParseFail
    ELSE IF t[p] = "\"" THEN Parsed(JStr(acc), p + 1)
    ELSE IF t[p] \in {"\n", "\r", "\t"} THEN ParseFail
    ELSE IF t[p] = "\\"
         THEN IF p + 1 > Len(t) \/ t[p + 1] \notin EscapeLetters
              THEN ParseFail
              ELSE ParseChars(t, p + 2, Append(acc, Unescape(t[p + 1])))
    ELSE ParseChars(t, p + 1, Append(acc, t[p]))

\* A key set again keeps its place and takes the later value.
SetMember(members, key, v) ==
    IF \E i \in 1..Len(members) : members[i].k = key
    THEN [i \in 1..Len(members) |->
            IF members[i].k = key THEN [k |-> key, v |-> v] ELSE members[i]]
    ELSE Append(members, [k |-> key, v |-> v])

LiteralAt(t, p, word) ==
    p + Len(word) - 1 <= Len(t) /\ SubSeq(t, p, p + Len(word) - 1) = word

RECURSIVE ParseValue(_, _)
RECURSIVE ParseElements(_, _, _)
RECURSIVE ParseMembers(_, _, _)

ParseValue(t, p0) ==
    LET p == SkipWs(t, p0)
    IN  IF p > Len(t) THEN ParseFail
        ELSE IF t[p] = "{"
             THEN LET q == SkipWs(t, p + 1)
                  IN  IF q <= Len(t) /\ t[q] = "}"
                      THEN Parsed(JObj(<<>>), q + 1)
                      ELSE ParseMembers(t, q, <<>>)
        ELSE IF t[p] = "["
             THEN LET q == SkipWs(t, p + 1)
                  IN  IF q <= Len(t) /\ t[q] = "]"
                      THEN Parsed(JArr(<<>>), q + 1)
                      ELSE ParseElements(t, q, <<>>)
        ELSE IF t[p] = "\"" THEN ParseChars(t, p + 1, <<>>)
        ELSE IF t[p] = "-" \/ IsDigit(t[p]) THEN ParseNumber(t, p)
        ELSE IF LiteralAt(t, p, <<"n", "u", "l", "l">>)
             THEN Parsed(JNull, p + 4)
        ELSE IF LiteralAt(t, p, <<"t", "r", "u", "e">>)
             THEN Parsed(JBool(TRUE), p + 4)
        ELSE IF LiteralAt(t, p, <<"f", "a", "l", "s", "e">>)
             THEN Parsed(JBool(FALSE), p + 5)
        ELSE ParseFail

ParseElements(t, p, acc) ==
    LET r == ParseValue(t, p)
        q == SkipWs(t, r.pos)
    IN  IF ~r.ok \/ q > Len(t) THEN ParseFail
        ELSE IF t[q] = "]" THEN Parsed(JArr(Append(acc, r.v)), q + 1)
        ELSE IF t[q] = "," THEN ParseElements(t, q + 1, Append(acc, r.v))
        ELSE ParseFail

ParseMembers(t, p, acc) ==
    LET k0 == SkipWs(t, p)
        key == ParseChars(t, k0 + 1, <<>>)
        colon == SkipWs(t, key.pos)
        r == ParseValue(t, colon + 1)
        q == SkipWs(t, r.pos)
        members == SetMember(acc, key.v.s, r.v)
    IN  IF k0 > Len(t) \/ t[k0] # "\"" THEN ParseFail
        ELSE IF ~key.ok \/ colon > Len(t) THEN ParseFail
        ELSE IF t[colon] # ":" THEN ParseFail
        ELSE IF ~r.ok \/ q > Len(t) THEN ParseFail
        ELSE IF t[q] = "}" THEN Parsed(JObj(members), q + 1)
        ELSE IF t[q] = "," THEN ParseMembers(t, q + 1, members)
        ELSE ParseFail

\* JSON.parse(t): the value, or ok = FALSE where it throws a SyntaxError.
JSONparse(t) ==
    LET r == ParseValue(t, 1)
    IN  IF r.ok /\ SkipWs(t, r.pos) > Len(t)
        THEN [ok |-> TRUE, v |-> r.v]
        ELSE [ok |-> FALSE, v |-> JNull]

\* ------------------------------------------------------------ extractJson

\* String.prototype.indexOf / lastIndexOf of one character: the position
\* counted from 0, or -1.
indexOf(s, c) ==
    IF \E p \in 1..Len(s) : s[p] = c
    THEN (CHOOSE p \in 1..Len(s) :
            s[p] = c /\ \A q \in 1..(p - 1) : s[q] # c) - 1
    ELSE 0 - 1

lastIndexOf(s, c) ==
    IF \E p \in 1..Len(s) : s[p] = c
    THEN (CHOOSE p \in 1..Len(s) :
            s[p] = c /\ \A q \in (p + 1)..Len(s) : s[q] # c) - 1
    ELSE 0 - 1

\* String.prototype.substring: the arguments are clamped to the string and
\* exchanged when the first is the larger.
ClampIndex(s, a) == IF a < 0 THEN 0 ELSE IF a > Len(s) THEN Len(s) ELSE a

substring(s, a, b) ==
    LET x == ClampIndex(s, a)
        y == ClampIndex(s, b)
    IN  IF x <= y THEN SubSeq(s, x + 1, y) ELSE SubSeq(s, y + 1, x)

\* String.prototype.replace with a global pattern that is a fixed string.
RECURSIVE ReplaceAll(_, _, _)
ReplaceAll(s, pat, rep) ==
    IF Len(s) < Len(pat) THEN s
    ELSE IF SubSeq(s, 1, Len(pat)) = pat
         THEN rep \o ReplaceAll(SubSeq(s, Len(pat) + 1, Len(s)), pat, rep)
         ELSE <<s[1]>> \o ReplaceAll(Tail(s), pat, rep)

\* Three backticks at position p (counted from 1).
Backtick == "u0060"

FenceAt(s, p) ==
    /\ p + 2 <= Len(s)
    /\ s[p] = Backtick /\ s[p + 1] = Backtick /\ s[p + 2] = Backtick

\* The first fence at or after p, 0 when there is none.
RECURSIVE NextFence(_, _)
NextFence(s, p) ==
    IF p + 2 > Len(s) THEN 0
    ELSE IF FenceAt(s, p) THEN p ELSE NextFence(s, p + 1)

\* \s*
RECURSIVE SkipSpace(_, _)
SkipSpace(s, p) ==
    IF p <= Len(s) /\ IsWhitespace(s[p]) THEN SkipSpace(s, p + 1) ELSE p

\* Where the group of the regular expressions begins for the fence at i:
\* after the fence, (?:json)? without regard to case, and \s*.
ContentStart(s, i) ==
    LET j == i + 3
        afterJson ==
            IF j + 3 <= Len(s)
               /\ toLowerCase(SubSeq(s, j, j + 3)) = <<"j", "s", "o", "n">>
            THEN j + 4 ELSE j
    IN  SkipSpace(s, afterJson)

\* [...jsonString.matchAll(codeBlockRegex)], the group of every match: the
\* lazy group ends at the first fence after its beginning, and the search
\* goes on after that fence.
RECURSIVE CodeBlocksFrom(_, _)
CodeBlocksFrom(s, p) ==
    LET i == NextFence(s, p)
        cs == ContentStart(s, i)
        j == NextFence(s, cs)
    IN  IF i = 0 \/ j = 0 THEN <<>>
        ELSE <<SubSeq(s, cs, j - 1)>> \o CodeBlocksFrom(s, j + 3)

matches(jsonString) == CodeBlocksFrom(jsonString, 1)

\* A variant of the loop over the blocks that tries them from the first.
RECURSIVE FirstBlockThatParses(_, _)
FirstBlockThatParses(m, i) ==
    IF Len(m) = 0 \/ i = 0 THEN [ok |-> FALSE, v |-> JNull]
    ELSE IF JSONparse(m[Len(m) - i + 1]).ok THEN JSONparse(m[Len(m) - i + 1])
    ELSE FirstBlockThatParses(m, i - 1)

\* for (let i = matches.length - 1; i >= 0; i--): the blocks from the last
\* to the first, the first of them that parses.
RECURSIVE LastBlockThatParses(_, _)
LastBlockThatParses(m, i) ==
    IF i = 0 THEN [ok |-> FALSE, v |-> JNull]
    ELSE IF JSONparse(m[i]).ok THEN JSONparse(m[i])
    ELSE LastBlockThatParses(m, i - 1)

\* 1. JSON.parse(text)
DirectParse(text) == JSONparse(text)

\* 2. the complete code blocks of the trimmed text
CodeBlockParse(text) ==
    LET m == matches(trim(text))
    IN  LastBlockThatParses(m, Len(m))

\* 2b. with no complete block, the text after the first fence, trimmed: cut
\* after its last closing brace, then as it is.
UnclosedBlockParse(text) ==
    LET jsonString == trim(text)
        i == NextFence(jsonString, 1)
        content ==
            trim(SubSeq(jsonString, ContentStart(jsonString, i),
                        Len(jsonString)))
        lastBrace == lastIndexOf(content, "}")
        potentialJson == substring(content, 0, lastBrace + 1)
    IN  IF Len(matches(jsonString)) # 0 \/ i = 0
        THEN [ok |-> FALSE, v |-> JNull]
        ELSE IF lastBrace # 0 - 1 /\ JSONparse(potentialJson).ok
             THEN JSONparse(potentialJson)
             ELSE JSONparse(content)

\* 3. the candidate between the outermost braces or brackets, found = FALSE
\* when there is none.
Candidate(text) ==
    LET jsonString == trim(text)
        firstBrace == indexOf(jsonString, "{")
        firstBracket == indexOf(jsonString, "[")
        useBrace ==
            firstBrace # 0 - 1
            /\ (firstBracket = 0 - 1 \/ firstBrace < firstBracket)
        startIdx ==
            IF useBrace THEN firstBrace
            ELSE IF firstBracket # 0 - 1 THEN firstBracket ELSE 0 - 1
        endIdx ==
            IF useBrace THEN lastIndexOf(jsonString, "}")
            ELSE IF firstBracket # 0 - 1 THEN lastIndexOf(jsonString, "]")
            ELSE 0 - 1
    IN  [found |-> startIdx # 0 - 1 /\ endIdx # 0 - 1,
         s |-> substring(jsonString, startIdx, endIdx + 1)]

BracketParse(text) ==
    IF Candidate(text).found THEN JSONparse(Candidate(text).s)
    ELSE [ok |-> FALSE, v |-> JNull]

\* 4. the four replacements of the cleanup, in their order.
Repaired(candidate) ==
    LET noControl ==
            [p \in 1..Len(candidate) |->
                IF candidate[p] \in {"\n", "\r", "\t"} THEN " "
                ELSE candidate[p]]
        doubled == ReplaceAll(noControl, <<"\\">>, <<"\\", "\\">>)
        quotes == ReplaceAll(doubled, <<"\\", "\\", "\"">>, <<"\\", "\"">>)
    IN  ReplaceAll(quotes, <<"\\", "\\", "n">>, <<"\\", "n">>)

RepairedParse(text) ==
    IF Candidate(text).found THEN JSONparse(Repaired(Candidate(text).s))
    ELSE [ok |-> FALSE, v |-> JNull]

\* What extractJson does with a text: it returns a value (`by` is the
\* statement that returned it, 0 for the return of the first line) or throws
\* an Error with a message.
JsonReturn(v, by) == [kind |-> "return", v |-> v, by |-> by, msg |-> <<>>]

JsonThrow(msg) == [kind |-> "throw", v |-> JNull, by |-> 0, msg |-> msg]

FatalJsonMessage(text) ==
    MsgFatalJson \o substring(text, 0, 100) \o <<".", ".", ".">>

extractJson(text) ==
    IF text = <<>> THEN JsonReturn(JNull, 0)
    ELSE IF DirectParse(text).ok THEN JsonReturn(DirectParse(text).v, 1)
    ELSE IF CodeBlockParse(text).ok
         THEN JsonReturn(CodeBlockParse(text).v, 2)
    ELSE IF UnclosedBlockParse(text).ok
         THEN JsonReturn(UnclosedBlockParse(text).v, 3)
    ELSE IF BracketParse(text).ok THEN JsonReturn(BracketParse(text).v, 4)
    ELSE IF RepairedParse(text).ok THEN JsonReturn(RepairedParse(text).v, 5)
    ELSE JsonThrow(FatalJsonMessage(text))

\* ----------------------------------------------------------------- state

VARIABLES
    op,                \* the operation asked of the service
    callerStructure,   \* the outline object the application passed
    currentStructure,  \* the outline passed to the running pass
    passInput,         \* value of currentStructure when the pass began
    newStructure,      \* the copy the pass writes into
    passNo,            \* 1, or 2 for the second pass of the final agent
    agentName,         \* agentName of the running pass
    onlyMissing,       \* onlyMissing of the running pass
    pc,                \* where the operation stands
    chIdx,             \* position of the for-of loop in chapters
    chunks,            \* the sub-batches of safety batch mode
    chunkIdx,          \* position of the loop over chunks
    inFlight,          \* gateway calls issued and not yet settled
    callLog,           \* the gateway calls the running pass issued, in order
    lastResp           \* outcome of the call of the pass settled last

\* The state of the application (App).
VARIABLES
    thesisStructure,     \* the outline the application holds
    currentAgentIndex,   \* the step pointer, -1 when no workflow runs
    isWorking,
    isPaused,
    selectedSectionIds,
    agentStatus,         \* status of every agent of the list, by position
    pending,             \* agent steps and regenerations awaiting the service
    lastOutcome,         \* the operation settled last, and how it ended
    savedSession,        \* the session file saved last, if any
    used                 \* what the run has used of its bounds

passVars ==
    <<op, callerStructure, currentStructure, passInput, newStructure,
      passNo, agentName, onlyMissing, pc, chIdx, chunks, chunkIdx,
      inFlight, callLog, lastResp>>

appVars ==
    <<thesisStructure, currentAgentIndex, isWorking, isPaused,
      selectedSectionIds, agentStatus, pending, lastOutcome, savedSession,
      used>>

\* The parser, the Outline Builder and the gateway, each taken alone.
VARIABLES
    text,           \* the text extractJson is called with
    extracted,      \* what extractJson did with it
    archResponse,   \* what runArchitectAgent gets from callLLM and extractJson
    archResult,     \* what runArchitectAgent did with it
    call            \* one call of callLLM: backend, position, timer, clock

svcVars == <<text, extracted, archResponse, archResult, call>>

\* The agent list of the application and the state of the workflow
\* designer (WorkflowBuilder).
VARIABLES
    agents,               \* the agents in list order, each with id and name
    isAddModalOpen,
    insertIndex,
    isGeneratingPrompt    \* generateAgentPrompt is awaited

builderVars == <<agents, isAddModalOpen, insertIndex, isGeneratingPrompt>>

\* What a session file carries beside the state above, and the files.
VARIABLES
    input,          \* the user input: field, topic, specificFocus
    docHistory,     \* the markdown of every agent that has completed
    logs,           \* the log entries, oldest first
    sessionFile,    \* text of the file saved last, empty when none
    savedValues,    \* the state the file saved last was written from
    reading         \* the text a FileReader is reading, if any

sessionVars ==
    <<input, docHistory, logs, sessionFile, savedValues, reading>>

vars == <<passVars, appVars, svcVars, builderVars, sessionVars>>

NotRun == [kind |-> "none"]

\* No call of extractJson, of runArchitectAgent or of callLLM is followed.
ServiceIdle ==
    /\ text = <<>>
    /\ extracted = NotRun
    /\ archResponse = NotRun
    /\ archResult = NotRun
    /\ call = NotRun

isVisuals == IsVisualsName(agentName)

chapters == ChaptersOf(newStructure)

sectionsToProcess == SectionsToProcess(chapters[chIdx])

NoResp == "none"

\* -------------------------------------------------------- initial outlines

SectionIds == <<"s1", "s2", "s3", "s4", "s5", "s6", "s7", "s8">>

TitleMethod == <<"#", " ", "1", " ", "M", "e", "t", "h", "o", "d">>
TitleModel == <<"#", "#", " ", "1", ".", "1", " ", "M", "o", "d", "e", "l">>
TitleReferences ==
    <<"#", " ", "R", "e", "f", "e", "r", "e", "n", "c", "e", "s">>
TitleCanKaoWenXian == <<"#", "#", " ", "u53C2", "u8003", "u6587", "u732E">>

OldText == <<"o">>

\* Level sequences: the outline opens with a chapter root.
LevelsOf(n) ==
    {lv \in [1..n -> {1, 2}] :
        /\ lv[1] = 1
        /\ Cardinality({i \in 1..n : lv[i] = 1}) <= MaxChapters}

TitleFor(level, skip) ==
    IF skip
    THEN IF level = 1 THEN TitleReferences ELSE TitleCanKaoWenXian
    ELSE IF level = 1 THEN TitleMethod ELSE TitleModel

\* An outline with the sections at `filled` carrying content and visuals
\* and the section at `skipAt` (0: none) titled as a references section.
MakeOutline(lv, filled, skipAt) ==
    [i \in DOMAIN lv |->
        Section(SectionIds[i], TitleFor(lv[i], i = skipAt), lv[i],
                IF i \in filled THEN OldText ELSE Undefined,
                IF i \in filled THEN OldText ELSE Undefined)]

\* The batch of every chapter of an outline with these levels.
BatchesOf(lv) ==
    LET cs == ChaptersOf(MakeOutline(lv, {}, 0))
    IN  {SectionsToProcess(cs[c]) : c \in 1..Len(cs)}

\* Which sections are filled: in every batch none, the first alone, or
\* all of them; a root outside its batch either way.
FillsOf(lv) ==
    {F \in SUBSET DOMAIN lv :
        \A b \in BatchesOf(lv) :
            LET inB == {b[k] : k \in 1..Len(b)}
            IN  F \cap inB \in {{}, {b[1]}, inB}}

IsUniform(outline) ==
    \/ \A i \in 1..Len(outline) : outline[i].content = Undefined
    \/ \A i \in 1..Len(outline) : outline[i].content # Undefined

\* The outlines the operations are run on: as the Outline Builder returns
\* them (nothing filled), as earlier passes leave them (filled in part or
\* in whole), a references section at the front, at the end or nowhere.
InitialOutlines ==
    UNION {
        UNION {
            {MakeOutline(lv, F, skipAt) :
                F \in FillsOf(lv), skipAt \in {0, 1, n}}
            : lv \in LevelsOf(n)}
        : n \in 1..MaxSections}

\* Longest outline a regeneration of selected sections is run on, and the
\* most sections selected.
MaxRegenSections == 3
MaxSelected == 2

\* Longest outline the final agent's repair is run on.
MaxRepairSections == 3

RegenAgents == {AgentArchitect, AgentPlanner, AgentVisuals, AgentFinal}

\* runAgentStepStructured(agent, ..., currentStructure)
StepOp(agent) == [kind |-> "step", agent |-> agent, ids |-> {}]

\* regenerateSpecificSections(agent, ..., currentStructure, ids)
RegenOp(agent, ids) == [kind |-> "regen", agent |-> agent, ids |-> ids]

OpsOn(outline) ==
    {StepOp(a) : a \in
        (IF IsUniform(outline) THEN {AgentPlanner, AgentVisuals} ELSE {})
        \cup (IF Len(outline) <= MaxRepairSections
              THEN {AgentFinal} ELSE {})}
    \cup
    IF Len(outline) <= MaxRegenSections /\ IsUniform(outline)
    THEN {RegenOp(a, S) :
            a \in RegenAgents,
            S \in {T \in SUBSET KeysOf(outline) :
                     Cardinality(T) \in 1..MaxSelected}}
    ELSE {}

\* INITIAL_AGENTS, in list order.
INITIAL_AGENTS == <<AgentArchitect, AgentPlanner, AgentVisuals, AgentFinal>>

\* agents[index], the index counted from 0.
AgentAt(index) == agents[index + 1]

\* updateAgentStatus(id, status)
updateAgentStatus(id, status) ==
    [i \in 1..Len(agents) |->
        IF agents[i].id = id THEN status ELSE agentStatus[i]]

\* useState of input: nothing typed.
EmptyInput == [field |-> <<>>, topic |-> <<>>, specificFocus |-> <<>>]

\* The input typed before a workflow is started.
TypedInput ==
    [field |-> <<"A", "I">>, topic |-> <<"T">>, specificFocus |-> <<>>]

\* No file has been saved or chosen.  The specifications that follow the
\* workflow leave the input, the history and the logs as they are here.
NoFiles ==
    /\ input = TypedInput
    /\ docHistory = <<>>
    /\ logs = <<>>
    /\ sessionFile = <<>>
    /\ savedValues = <<>>
    /\ reading = <<>>

\* The agent list and the workflow designer as they are mounted.
BuilderMounted ==
    /\ agents = INITIAL_AGENTS
    /\ isAddModalOpen = FALSE
    /\ insertIndex = 0
    /\ isGeneratingPrompt = FALSE

NoSession == <<>>

NoOutcome == [seq |-> 0, ok |-> TRUE]

\* The application as it is mounted: the initial values of its state.
AppMounted ==
    /\ BuilderMounted
    /\ NoFiles
    /\ thesisStructure = <<>>
    /\ currentAgentIndex = -1
    /\ isWorking = FALSE
    /\ isPaused = FALSE
    /\ selectedSectionIds = {}
    /\ agentStatus = [i \in 1..Len(INITIAL_AGENTS) |-> "idle"]
    /\ pending = {}
    /\ lastOutcome = NoOutcome
    /\ savedSession = NoSession
    /\ used = [starts |-> 0, saves |-> 0, loads |-> 0, overlaps |-> 0]

Init ==
    \E outline \in InitialOutlines :
      \E o \in OpsOn(outline) :
        /\ AppMounted
        /\ ServiceIdle
        /\ op = o
        /\ callerStructure = outline
        /\ currentStructure = outline
        /\ passInput = outline
        /\ newStructure = <<>>
        /\ passNo = 0
        /\ agentName = <<>>
        /\ onlyMissing = FALSE
        /\ pc = "entry"
        /\ chIdx = 0
        /\ chunks = <<>>
        /\ chunkIdx = 0
        /\ inFlight = 0
        /\ callLog = <<>>
        /\ lastResp = NoResp

\* ------------------------------------------------- runContentInjectionAgent

\* The pass begins: the deep copy, the grouping, the loop at its first
\* chapter.
BeginPass(name, onlyMiss, no, structure) ==
    /\ agentName' = name
    /\ onlyMissing' = onlyMiss
    /\ passNo' = no
    /\ currentStructure' = structure
    /\ passInput' = structure
    /\ newStructure' = DeepCopy(structure)
    /\ chIdx' = 1
    /\ chunks' = <<>>
    /\ chunkIdx' = 0
    /\ pc' = "loop"

\* runAgentStepStructured for an agent that is not the Outline Builder: the
\* final agent starts content repair, any other agent its own pass.
EnterStep ==
    /\ pc = "entry"
    /\ op.kind = "step"
    /\ ~IsArchitectName(op.agent.name)
    /\ IF op.agent.id = "final_draft"
       THEN BeginPass(NameContentFix, TRUE, 1, currentStructure)
       ELSE BeginPass(op.agent.name, FALSE, 1, currentStructure)
    /\ UNCHANGED <<op, callerStructure, inFlight, callLog, lastResp>>
    /\ UNCHANGED <<appVars, svcVars, builderVars, sessionVars>>

\* `continue`: the visuals filter or the gap-repair check passes the
\* chapter over.
SkipChapter ==
    /\ pc = "loop"
    /\ chIdx <= Len(chapters)
    /\ ChapterSkipped(newStructure, chapters[chIdx], isVisuals, onlyMissing)
    /\ chIdx' = chIdx + 1
    /\ UNCHANGED <<op, callerStructure, currentStructure, passInput,
                   newStructure, passNo, agentName, onlyMissing, pc, chunks,
                   chunkIdx, inFlight, callLog, lastResp>>
    /\ UNCHANGED <<appVars, svcVars, builderVars, sessionVars>>

LogEntry(kind, batch) ==
    [pass |-> passNo, ch |-> chIdx, kind |-> kind, batch |-> batch]

\* Attempt 1: processBatch(sectionsToProcess) issues its gateway call.
CallWholeChapter ==
    /\ pc = "loop"
    /\ chIdx <= Len(chapters)
    /\ ~ChapterSkipped(newStructure, chapters[chIdx], isVisuals, onlyMissing)
    /\ pc' = "awaitWhole"
    /\ inFlight' = inFlight + 1
    /\ callLog' = Append(callLog, LogEntry("whole", sectionsToProcess))
    /\ UNCHANGED <<op, callerStructure, currentStructure, passInput,
                   newStructure, passNo, agentName, onlyMissing, chIdx,
                   chunks, chunkIdx, lastResp>>
    /\ UNCHANGED <<appVars, svcVars, builderVars, sessionVars>>

\* The writes of a settled call into the copy.
WriteBatch(r) ==
    /\ newStructure' =
          IF r.kind = "object"
          THEN ApplyEntries(newStructure, isVisuals, r.map)
          ELSE newStructure
    /\ currentStructure' = CallerAfterWrite(currentStructure, newStructure')
    /\ callerStructure' = CallerAfterWrite(callerStructure, newStructure')

\* The whole-chapter call settles: the entries are written and the loop
\* moves on, or the error is classified by its message.
SettleWholeChapter(responses) ==
    /\ pc = "awaitWhole"
    /\ \E r \in responses :
        /\ inFlight' = inFlight - 1
        /\ lastResp' = r.kind
        /\ WriteBatch(r)
        /\ IF r.kind \in {"object", "falsy"}
           THEN /\ chIdx' = chIdx + 1
                /\ pc' = "loop"
                /\ UNCHANGED <<chunks, chunkIdx>>
           ELSE IF TriggersSplit(r.msg)
                THEN /\ chunks' = SplitChunks(sectionsToProcess)
                     /\ chunkIdx' = 1
                     /\ pc' = "chunkLoop"
                     /\ UNCHANGED chIdx
                ELSE /\ pc' = "thrown"
                     /\ UNCHANGED <<chIdx, chunks, chunkIdx>>
    /\ UNCHANGED <<op, passInput, passNo, agentName, onlyMissing, callLog>>
    /\ UNCHANGED <<appVars, svcVars, builderVars, sessionVars>>

WholeChapterSettles ==
    SettleWholeChapter(Responses(newStructure, sectionsToProcess))

\* The whole-chapter call settles with a successfully parsed object whose
\* values may open with a heading marker.
HeadingSettles ==
    SettleWholeChapter(
        ParsedObjects(newStructure, sectionsToProcess, HeadingValues))

\* The whole-chapter call of a pass run again on a filled outline settles
\* with a successfully parsed object.
RerunSettles ==
    SettleWholeChapter(
        ParsedObjects(newStructure, sectionsToProcess, RerunValues))

\* A variant of the loop over chunks that does not await: the call of the
\* next chunk is issued while the earlier ones are pending.
CallChunkWithoutAwait ==
    /\ pc = "chunkLoop"
    /\ chunkIdx <= Len(chunks)
    /\ chunkIdx' = chunkIdx + 1
    /\ inFlight' = inFlight + 1
    /\ callLog' = Append(callLog, LogEntry("chunk", chunks[chunkIdx]))
    /\ UNCHANGED <<op, callerStructure, currentStructure, passInput,
                   newStructure, passNo, agentName, onlyMissing, pc, chIdx,
                   chunks, lastResp>>
    /\ UNCHANGED <<appVars, svcVars, builderVars, sessionVars>>

\* Safety batch mode: processBatch(chunk) issues its gateway call.
CallChunk ==
    /\ pc = "chunkLoop"
    /\ chunkIdx <= Len(chunks)
    /\ pc' = "awaitChunk"
    /\ inFlight' = inFlight + 1
    /\ callLog' = Append(callLog, LogEntry("chunk", chunks[chunkIdx]))
    /\ UNCHANGED <<op, callerStructure, currentStructure, passInput,
                   newStructure, passNo, agentName, onlyMissing, chIdx,
                   chunks, chunkIdx, lastResp>>
    /\ UNCHANGED <<appVars, svcVars, builderVars, sessionVars>>

\* A sub-batch call settles: written, or logged and passed over, or (an
\* error whose message names neither JSON nor Syntax) rethrown.  After the
\* last chunk the loop over chapters moves on.
ChunkSettles ==
    /\ pc = "awaitChunk"
    /\ \E r \in Responses(newStructure, chunks[chunkIdx]) :
        /\ inFlight' = inFlight - 1
        /\ lastResp' = r.kind
        /\ WriteBatch(r)
        /\ IF r.kind \in {"error", "malformed"} /\ RetryIsCritical(r.msg)
           THEN /\ pc' = "thrown"
                /\ UNCHANGED <<chIdx, chunks, chunkIdx>>
           ELSE IF chunkIdx < Len(chunks)
                THEN /\ chunkIdx' = chunkIdx + 1
                     /\ pc' = "chunkLoop"
                     /\ UNCHANGED <<chIdx, chunks>>
                ELSE /\ chIdx' = chIdx + 1
                     /\ chunks' = <<>>
                     /\ chunkIdx' = 0
                     /\ pc' = "loop"
    /\ UNCHANGED <<op, passInput, passNo, agentName, onlyMissing, callLog>>
    /\ UNCHANGED <<appVars, svcVars, builderVars, sessionVars>>

\* A variant of the hand-over in which visuals repair is given the outline the
\* step was called with, not the one content repair returned.
VisualsRepairOnStepInput ==
    /\ pc = "loop"
    /\ chIdx > Len(chapters)
    /\ op.agent.id = "final_draft"
    /\ passNo = 1
    /\ BeginPass(NameVisualsFix, TRUE, 2, passInput)
    /\ callLog' = <<>>
    /\ lastResp' = NoResp
    /\ UNCHANGED <<op, callerStructure, inFlight>>
    /\ UNCHANGED <<appVars, svcVars, builderVars, sessionVars>>

\* The final agent: content repair returned, visuals repair begins on the
\* outline it returned.
ContentRepairReturns ==
    /\ pc = "loop"
    /\ chIdx > Len(chapters)
    /\ op.agent.id = "final_draft"
    /\ passNo = 1
    /\ BeginPass(NameVisualsFix, TRUE, 2, newStructure)
    /\ callLog' = <<>>
    /\ lastResp' = NoResp
    /\ UNCHANGED <<op, callerStructure, inFlight>>
    /\ UNCHANGED <<appVars, svcVars, builderVars, sessionVars>>

\* return newStructure, and with it the step.
PassReturns ==
    /\ pc = "loop"
    /\ chIdx > Len(chapters)
    /\ ~(op.agent.id = "final_draft" /\ passNo = 1)
    /\ pc' = "returned"
    /\ UNCHANGED <<op, callerStructure, currentStructure, passInput,
                   newStructure, passNo, agentName, onlyMissing, chIdx,
                   chunks, chunkIdx, inFlight, callLog, lastResp>>
    /\ UNCHANGED <<appVars, svcVars, builderVars, sessionVars>>

\* ----------------------------------------------- regenerateSpecificSections

\* "#".repeat(level)
RECURSIVE Hashes(_)
Hashes(level) == IF level <= 0 THEN <<>> ELSE <<"#">> \o Hashes(level - 1)

\* The replacement title: heading markers are put back when the returned
\* title has none.
NewTitle(section, v) ==
    IF StartsWith(v, <<"#">>) THEN v
    ELSE Hashes(section.level) \o <<" ">> \o v

\* The write of one returned pair by a regeneration.
RegenWriteSection(section, name, v) ==
    IF IsArchitectName(name) THEN [section EXCEPT !.title = NewTitle(section, v)]
    ELSE WriteSection(section, IsVisualsName(name), v)

\* The loop over Object.entries(partialContent) of a regeneration.
ApplyRegenEntries(structure, name, map) ==
    [i \in 1..Len(structure) |->
        IF \E key \in DOMAIN map : FindById(structure, key) = i
        THEN RegenWriteSection(structure[i], name, map[structure[i].id])
        ELSE structure[i]]

\* newStructure.filter(s => sectionIdsToRegenerate.includes(s.id)), as
\* positions.
RECURSIVE SelectedFrom(_, _, _)
SelectedFrom(structure, ids, i) ==
    IF i > Len(structure) THEN <<>>
    ELSE (IF structure[i].id \in ids THEN <<i>> ELSE <<>>)
            \o SelectedFrom(structure, ids, i + 1)

\* The copy is made; with no section selected it is returned at once,
\* otherwise the one gateway call is issued.
EnterRegen ==
    /\ pc = "entry"
    /\ op.kind = "regen"
    /\ agentName' = op.agent.name
    /\ passNo' = 1
    /\ passInput' = currentStructure
    /\ newStructure' = DeepCopy(currentStructure)
    /\ LET selected == SelectedFrom(currentStructure, op.ids, 1)
       IN  IF Len(selected) = 0
           THEN /\ pc' = "returned"
                /\ UNCHANGED <<inFlight, callLog>>
           ELSE /\ pc' = "awaitRegen"
                /\ inFlight' = inFlight + 1
                /\ callLog' = Append(callLog,
                      [pass |-> 1, ch |-> 0, kind |-> "regen",
                       batch |-> selected])
    /\ UNCHANGED <<op, callerStructure, currentStructure, onlyMissing,
                   chIdx, chunks, chunkIdx, lastResp>>
    /\ UNCHANGED <<appVars, svcVars, builderVars, sessionVars>>

\* The call settles: the entries are written and the copy returned, or the
\* error is wrapped and thrown.
SettleRegen(responses) ==
    /\ pc = "awaitRegen"
    /\ \E r \in responses :
        /\ inFlight' = inFlight - 1
        /\ lastResp' = r.kind
        /\ newStructure' =
              IF r.kind = "object"
              THEN ApplyRegenEntries(newStructure, agentName, r.map)
              ELSE newStructure
        /\ currentStructure' =
              CallerAfterWrite(currentStructure, newStructure')
        /\ callerStructure' =
              CallerAfterWrite(callerStructure, newStructure')
        /\ pc' = IF r.kind \in {"object", "falsy"}
                 THEN "returned" ELSE "thrown"
    /\ UNCHANGED <<op, passInput, passNo, agentName, onlyMissing, chIdx,
                   chunks, chunkIdx, callLog>>
    /\ UNCHANGED <<appVars, svcVars, builderVars, sessionVars>>

RegenSettles ==
    SettleRegen(Responses(newStructure,
                          SelectedFrom(newStructure, op.ids, 1)))

\* The call of a content-mode regeneration settles with a successfully
\* parsed object whose values may open with a heading marker.
HeadingRegenSettles ==
    SettleRegen(ParsedObjects(newStructure,
                              SelectedFrom(newStructure, op.ids, 1),
                              HeadingValues))

\* -------------------------------------------------------------- App

\* Most operations awaiting the service at once, and most times a run
\* starts an operation while another is pending.
MaxPending == 2
MaxOverlaps == 1

\* Most session files a run saves, and most it loads.
MaxSaves == 1
MaxLoads == 1

\* Most workflows a run starts.
MaxStarts == 2

\* An operation may be handed to the service.
MayStart == Cardinality(pending) < MaxPending

\* The run may still start an operation while another is pending.
WithinOverlaps(max) == pending # {} => used.overlaps < max

\* A continue here hands the step of the next agent to the service.
ContinueStarts == currentAgentIndex + 1 < Len(agents)

\* The bounds used once an operation is handed to the service.
UsedByStart ==
    IF pending # {} THEN [used EXCEPT !.overlaps = @ + 1] ELSE used

\* The outlines the Outline Builder is taken to return.
ArchitectOutlines == {MakeOutline(<<1, 2>>, {}, 0)}

\* The objects a call is taken to return here: the text for every id of
\* the outline, or for none.
IdMaps(structure) ==
    {[k \in K |-> NewText] :
        K \in {{}, {structure[i].id : i \in 1..Len(structure)}}}

\* The loop of a pass over this outline reaches a chapter it calls the
\* gateway for.
PassCalls(structure, name, onlyMiss) ==
    \E c \in 1..Len(ChaptersOf(structure)) :
        ~ChapterSkipped(structure, ChaptersOf(structure)[c],
                        IsVisualsName(name), onlyMiss)

\* Outlines runContentInjectionAgent returns: the copy with the entries of
\* the returned objects written (a key is written wherever in the outline
\* its section is) once a call is made; the copy as it is when no call is
\* made.
PassResults(structure, name, onlyMiss) ==
    IF PassCalls(structure, name, onlyMiss)
    THEN {ApplyEntries(DeepCopy(structure), IsVisualsName(name), m) :
            m \in IdMaps(structure)}
    ELSE {DeepCopy(structure)}

Returned(structure) == [ok |-> TRUE, structure |-> structure]

Thrown == [ok |-> FALSE, structure |-> <<>>]

\* How runAgentStepStructured may end for this agent on this outline.
StepOutcomes(agent, structure) ==
    IF IsArchitectName(agent.name)
    THEN {Returned(r) : r \in ArchitectOutlines} \cup {Thrown}
    ELSE IF agent.id = "final_draft"
    THEN LET fixed == PassResults(structure, NameContentFix, TRUE)
         IN  {Returned(r) : r \in
                UNION {PassResults(f, NameVisualsFix, TRUE) : f \in fixed}}
             \cup (IF \/ PassCalls(structure, NameContentFix, TRUE)
                      \/ \E f \in fixed : PassCalls(f, NameVisualsFix, TRUE)
                   THEN {Thrown} ELSE {})
    ELSE {Returned(r) : r \in PassResults(structure, agent.name, FALSE)}
         \cup (IF PassCalls(structure, agent.name, FALSE)
               THEN {Thrown} ELSE {})

\* How regenerateSpecificSections may end.
RegenOutcomes(agent, structure, ids) ==
    IF Len(SelectedFrom(structure, ids, 1)) = 0
    THEN {Returned(DeepCopy(structure))}
    ELSE {Returned(ApplyRegenEntries(DeepCopy(structure), agent.name, m)) :
            m \in IdMaps(structure)} \cup {Thrown}

\* An operation handed to the service: `input` is the outline passed,
\* `seq` orders the operations that are pending by their start, and
\* `overtaken` tells that an operation started later has written the
\* outline of the application since.
NewOperation(kind, index, structure, ids) ==
    [seq |-> 1 + Cardinality(pending), kind |-> kind, index |-> index,
     agent |-> AgentAt(index), input |-> structure, ids |-> ids,
     overtaken |-> FALSE]

\* The operations left pending when o settles; those started before o are
\* marked when o wrote the outline.
Settle(o, wrote) ==
    {[seq |-> IF q.seq > o.seq THEN q.seq - 1 ELSE q.seq,
      kind |-> q.kind, index |-> q.index, agent |-> q.agent,
      input |-> q.input,
      ids |-> q.ids,
      overtaken |-> q.overtaken \/ (wrote /\ q.seq < o.seq)] :
        q \in pending \ {o}}

\* startWorkflow, behind the submit button of the input form, with
\* runAgentStep(0, []) up to its await.
StartWorkflow ==
    /\ ~(isWorking \/ (isPaused /\ currentAgentIndex # -1))
    /\ used.starts < MaxStarts
    /\ thesisStructure' = <<>>
    /\ isPaused' = FALSE
    /\ selectedSectionIds' = {}
    /\ IF Len(agents) = 0
       THEN /\ used' = [used EXCEPT !.starts = @ + 1]
            /\ currentAgentIndex' = -1
            /\ isWorking' = FALSE
            /\ UNCHANGED <<agentStatus, pending>>
       ELSE /\ MayStart
            /\ used' = [UsedByStart EXCEPT !.starts = @ + 1]
            /\ currentAgentIndex' = 0
            /\ agentStatus' = [i \in 1..Len(agents) |->
                                  IF i = 1 THEN "working" ELSE "waiting"]
            /\ isWorking' = TRUE
            /\ pending' = pending \cup {NewOperation("step", 0, <<>>, {})}
    /\ UNCHANGED <<lastOutcome, savedSession>>
    /\ UNCHANGED <<passVars, svcVars, builderVars, sessionVars>>

\* A variant of handleContinue below without its early return: it runs
\* with the pointer at -1 too.
HandleContinueUnguarded ==
    /\ isPaused
    /\ LET nextIndex == currentAgentIndex + 1
       IN  IF nextIndex >= Len(agents)
           THEN /\ isWorking' = FALSE
                /\ isPaused' = FALSE
                /\ currentAgentIndex' = -1
                /\ UNCHANGED <<agentStatus, pending, used>>
           ELSE /\ MayStart
                /\ used' = UsedByStart
                /\ currentAgentIndex' = nextIndex
                /\ isPaused' = FALSE
                /\ agentStatus' =
                      updateAgentStatus(AgentAt(nextIndex).id, "working")
                /\ isWorking' = TRUE
                /\ pending' = pending
                      \cup {NewOperation("step", nextIndex,
                                         thesisStructure, {})}
    /\ selectedSectionIds' = {}
    /\ UNCHANGED <<thesisStructure, lastOutcome, savedSession>>
    /\ UNCHANGED <<passVars, svcVars, builderVars, sessionVars>>

\* handleContinue, behind the button of the checkpoint controls, with
\* runAgentStep(nextIndex, thesisStructure) up to its await: past the last
\* agent the workflow ends, otherwise the step is handed to the service.
HandleContinue ==
    /\ isPaused
    /\ currentAgentIndex # -1
    /\ LET nextIndex == currentAgentIndex + 1
       IN  IF nextIndex >= Len(agents)
           THEN /\ isWorking' = FALSE
                /\ isPaused' = FALSE
                /\ currentAgentIndex' = -1
                /\ UNCHANGED <<agentStatus, pending, used>>
           ELSE /\ MayStart
                /\ used' = UsedByStart
                /\ currentAgentIndex' = nextIndex
                /\ isPaused' = FALSE
                /\ agentStatus' =
                      updateAgentStatus(AgentAt(nextIndex).id, "working")
                /\ isWorking' = TRUE
                /\ pending' = pending
                      \cup {NewOperation("step", nextIndex,
                                         thesisStructure, {})}
    /\ selectedSectionIds' = {}
    /\ UNCHANGED <<thesisStructure, lastOutcome, savedSession>>
    /\ UNCHANGED <<passVars, svcVars, builderVars, sessionVars>>

\* The promise of an agent step settles: the try block or the catch block
\* of runAgentStep.
StepSettles ==
    /\ \E o \in pending :
        /\ o.kind = "step"
        /\ \E out \in StepOutcomes(o.agent, o.input) :
            /\ lastOutcome' = [seq |-> o.seq, ok |-> out.ok]
            /\ pending' = Settle(o, out.ok)
            /\ isWorking' = FALSE
            /\ IF out.ok
               THEN /\ thesisStructure' = out.structure
                    /\ agentStatus' =
                          updateAgentStatus(o.agent.id, "completed")
                    /\ isPaused' = TRUE
                    /\ selectedSectionIds' = {}
               ELSE /\ agentStatus' =
                          updateAgentStatus(o.agent.id, "error")
                    /\ UNCHANGED <<thesisStructure, isPaused,
                                   selectedSectionIds>>
    /\ UNCHANGED <<currentAgentIndex, savedSession, used>>
    /\ UNCHANGED <<passVars, svcVars, builderVars, sessionVars>>

\* section.content || section.visuals: the checkbox of a section is shown.
HasContent(section) ==
    \/ section.content # Undefined /\ section.content # <<>>
    \/ section.visuals # Undefined /\ section.visuals # <<>>

\* toggleSectionSelection, behind the checkbox shown at a checkpoint.
ToggleSectionSelection ==
    /\ isPaused
    /\ \E i \in 1..Len(thesisStructure) :
        /\ HasContent(thesisStructure[i])
        /\ LET id == thesisStructure[i].id
           IN  selectedSectionIds' =
                  IF id \in selectedSectionIds
                  THEN selectedSectionIds \ {id}
                  ELSE selectedSectionIds \cup {id}
    /\ Cardinality(selectedSectionIds') <= MaxSelected
    /\ UNCHANGED <<thesisStructure, currentAgentIndex, isWorking, isPaused,
                   agentStatus, pending, lastOutcome, savedSession, used>>
    /\ UNCHANGED <<passVars, svcVars, builderVars, sessionVars>>

\* handleRegenerateSelected up to its await.
HandleRegenerateSelected ==
    /\ isPaused
    /\ selectedSectionIds # {}
    /\ ~isWorking
    /\ currentAgentIndex \in 0..(Len(agents) - 1)
    /\ MayStart
    /\ used' = UsedByStart
    /\ isWorking' = TRUE
    /\ pending' = pending
          \cup {NewOperation("regen", currentAgentIndex, thesisStructure,
                             selectedSectionIds)}
    /\ UNCHANGED <<thesisStructure, currentAgentIndex, isPaused,
                   selectedSectionIds, agentStatus, lastOutcome,
                   savedSession>>
    /\ UNCHANGED <<passVars, svcVars, builderVars, sessionVars>>

\* The promise of a regeneration settles: the try, catch and finally
\* blocks of handleRegenerateSelected.
RegenerationSettles ==
    /\ \E o \in pending :
        /\ o.kind = "regen"
        /\ \E out \in RegenOutcomes(o.agent, o.input, o.ids) :
            /\ lastOutcome' = [seq |-> o.seq, ok |-> out.ok]
            /\ pending' = Settle(o, out.ok)
            /\ isWorking' = FALSE
            /\ IF out.ok
               THEN /\ thesisStructure' = out.structure
                    /\ selectedSectionIds' = {}
               ELSE UNCHANGED <<thesisStructure, selectedSectionIds>>
    /\ UNCHANGED <<currentAgentIndex, isPaused, agentStatus, savedSession,
                   used>>
    /\ UNCHANGED <<passVars, svcVars, builderVars, sessionVars>>

\* A variant of the filter below that removes the first selected section
\* alone.
RECURSIVE WithoutFirstSelected(_, _)
WithoutFirstSelected(structure, ids) ==
    IF structure = <<>> THEN <<>>
    ELSE IF Head(structure).id \in ids THEN Tail(structure)
    ELSE <<Head(structure)>> \o WithoutFirstSelected(Tail(structure), ids)

\* thesisStructure.filter(section => !selectedSectionIds.has(section.id))
RECURSIVE WithoutSelected(_, _)
WithoutSelected(structure, ids) ==
    IF structure = <<>> THEN <<>>
    ELSE (IF Head(structure).id \in ids THEN <<>> ELSE <<Head(structure)>>)
            \o WithoutSelected(Tail(structure), ids)

\* handleDeleteSelected, behind the button of the checkpoint controls
\* (disabled while working or with nothing selected): the operator confirms
\* or declines in the dialog.
HandleDeleteSelected ==
    /\ isPaused
    /\ selectedSectionIds # {}
    /\ ~isWorking
    /\ \E confirmDelete \in BOOLEAN :
          IF confirmDelete
          THEN /\ thesisStructure' =
                     WithoutSelected(thesisStructure, selectedSectionIds)
               /\ selectedSectionIds' = {}
          ELSE UNCHANGED <<thesisStructure, selectedSectionIds>>
    /\ UNCHANGED <<currentAgentIndex, isWorking, isPaused, agentStatus,
                   pending, lastOutcome, savedSession, used>>
    /\ UNCHANGED <<passVars, svcVars, builderVars, sessionVars>>

\* handleSaveSession, behind the button of the checkpoint controls: the
\* saved file, as far as the application state modelled here goes.
HandleSaveSession ==
    /\ isPaused
    /\ used.saves < MaxSaves
    /\ used' = [used EXCEPT !.saves = @ + 1]
    /\ savedSession' =
          <<[agents |-> agents, agentStatus |-> agentStatus,
             thesisStructure |-> thesisStructure,
             currentAgentIndex |-> currentAgentIndex,
             isPaused |-> isPaused, isWorking |-> isWorking]>>
    /\ UNCHANGED <<thesisStructure, currentAgentIndex, isWorking, isPaused,
                   selectedSectionIds, agentStatus, pending, lastOutcome>>
    /\ UNCHANGED <<passVars, svcVars, builderVars, sessionVars>>

\* handleFileChange with the file saved last: reader.onload.  A file that
\* will not be loaded again is dropped from the state.
HandleFileChange ==
    /\ savedSession # NoSession
    /\ used.loads < MaxLoads
    /\ used' = [used EXCEPT !.loads = @ + 1]
    /\ LET json == savedSession[1]
       IN  /\ agents' = json.agents
           /\ agentStatus' = json.agentStatus
           /\ thesisStructure' = json.thesisStructure
           /\ currentAgentIndex' = json.currentAgentIndex
           /\ isPaused' = json.isPaused
           /\ isWorking' = FALSE
    /\ savedSession' =
          IF used.loads + 1 < MaxLoads THEN savedSession ELSE NoSession
    /\ UNCHANGED <<selectedSectionIds, pending, lastOutcome>>
    /\ UNCHANGED <<isAddModalOpen, insertIndex, isGeneratingPrompt>>
    /\ UNCHANGED <<passVars, svcVars, sessionVars>>

\* ----------------------------------------------------------- WorkflowBuilder

\* Fewest agents the operator leaves in the list.
MinAgents == 3

NameCustom == <<"R", "e", "v", "i", "e", "w", "e", "r">>

\* The agent handleCreateAgent builds; its id is the time of its creation.
AgentCustom == [id |-> "custom", name |-> NameCustom]

\* isLocked={isWorking || isPaused}
isLocked == isWorking \/ isPaused

\* newList.splice(index, 0, x)
InsertAt(list, index, x) ==
    LET at == IF index > Len(list) THEN Len(list) ELSE index
    IN  SubSeq(list, 1, at) \o <<x>> \o SubSeq(list, at + 1, Len(list))

\* list without its element at position i
RemoveAt(list, i) == SubSeq(list, 1, i - 1) \o SubSeq(list, i + 1, Len(list))

\* handleOpenAddModal(index), behind the "+" buttons of the designer.
HandleOpenAddModal ==
    /\ ~isLocked
    /\ ~isAddModalOpen
    /\ \A i \in 1..Len(agents) : agents[i].id # AgentCustom.id
    /\ \E index \in 0..Len(agents) : insertIndex' = index
    /\ isAddModalOpen' = TRUE
    /\ UNCHANGED <<agents, isGeneratingPrompt>>
    /\ UNCHANGED <<passVars, appVars, svcVars, sessionVars>>

\* The cancel button of the dialog; it is not disabled while the prompt is
\* generated.
CancelAddModal ==
    /\ isAddModalOpen
    /\ isAddModalOpen' = FALSE
    /\ UNCHANGED <<agents, insertIndex, isGeneratingPrompt>>
    /\ UNCHANGED <<passVars, appVars, svcVars, sessionVars>>

\* handleCreateAgent up to its await of generateAgentPrompt.
HandleCreateAgent ==
    /\ isAddModalOpen
    /\ ~isGeneratingPrompt
    /\ isGeneratingPrompt' = TRUE
    /\ UNCHANGED <<agents, isAddModalOpen, insertIndex>>
    /\ UNCHANGED <<passVars, appVars, svcVars, sessionVars>>

\* generateAgentPrompt returns (it returns a text when its call fails too):
\* onAddAgent(insertIndex, newAgent), the dialog is closed.
PromptSettles ==
    /\ isGeneratingPrompt
    /\ agents' = InsertAt(agents, insertIndex, AgentCustom)
    /\ agentStatus' = InsertAt(agentStatus, insertIndex, "idle")
    /\ isAddModalOpen' = FALSE
    /\ isGeneratingPrompt' = FALSE
    /\ UNCHANGED <<thesisStructure, currentAgentIndex, isWorking, isPaused,
                   selectedSectionIds, pending, lastOutcome, savedSession,
                   used>>
    /\ UNCHANGED insertIndex
    /\ UNCHANGED <<passVars, svcVars, sessionVars>>

\* onRemoveAgent(agent.id), behind the button a card shows while the
\* designer is not locked.
HandleRemoveAgent ==
    /\ ~isLocked
    /\ ~isAddModalOpen
    /\ Len(agents) > MinAgents
    /\ \E i \in 1..Len(agents) :
        /\ agents' = RemoveAt(agents, i)
        /\ agentStatus' = RemoveAt(agentStatus, i)
    /\ UNCHANGED <<thesisStructure, currentAgentIndex, isWorking, isPaused,
                   selectedSectionIds, pending, lastOutcome, savedSession,
                   used>>
    /\ UNCHANGED <<isAddModalOpen, insertIndex, isGeneratingPrompt>>
    /\ UNCHANGED <<passVars, svcVars, sessionVars>>

\* No service operation of the pass machine runs beside the application.
PassIdle ==
    /\ op = [kind |-> "none", agent |-> AgentPlanner, ids |-> {}]
    /\ callerStructure = <<>>
    /\ currentStructure = <<>>
    /\ passInput = <<>>
    /\ newStructure = <<>>
    /\ passNo = 0
    /\ agentName = <<>>
    /\ onlyMissing = FALSE
    /\ pc = "idle"
    /\ chIdx = 0
    /\ chunks = <<>>
    /\ chunkIdx = 0
    /\ inFlight = 0
    /\ callLog = <<>>
    /\ lastResp = NoResp

InitApp == AppMounted /\ PassIdle /\ ServiceIdle

NextApp ==
    \/ (WithinOverlaps(MaxOverlaps) /\ StartWorkflow)
    \/ ((ContinueStarts => WithinOverlaps(MaxOverlaps)) /\ HandleContinue)
    \/ StepSettles
    \/ ToggleSectionSelection
    \/ (WithinOverlaps(MaxOverlaps) /\ HandleRegenerateSelected)
    \/ RegenerationSettles
    \/ HandleDeleteSelected
    \/ HandleSaveSession
    \/ HandleFileChange

\* ------------------------------------------------------------ specification

Next ==
    \/ EnterStep
    \/ SkipChapter
    \/ CallWholeChapter
    \/ WholeChapterSettles
    \/ CallChunk
    \/ ChunkSettles
    \/ ContentRepairReturns
    \/ PassReturns
    \/ EnterRegen
    \/ RegenSettles

Spec == Init /\ [][Next]_vars

\* The application driven by its operator and by the service settling.
SpecApp == InitApp /\ [][NextApp]_vars

\* --------------------------------------------- properties of a generation pass

\* A content pass run again: the Planner's step on an outline every section
\* of which is filled, every call answered with a parsed object.
MaxRerunSections == 4

FilledOutlines ==
    {outline \in InitialOutlines :
        /\ Len(outline) <= MaxRerunSections
        /\ \A i \in 1..Len(outline) : ~IsMissing(outline[i], FALSE)}

InitRerun ==
    \E outline \in FilledOutlines :
        /\ AppMounted
        /\ ServiceIdle
        /\ op = StepOp(AgentPlanner)
        /\ callerStructure = outline
        /\ currentStructure = outline
        /\ passInput = outline
        /\ newStructure = <<>>
        /\ passNo = 0
        /\ agentName = <<>>
        /\ onlyMissing = FALSE
        /\ pc = "entry"
        /\ chIdx = 0
        /\ chunks = <<>>
        /\ chunkIdx = 0
        /\ inFlight = 0
        /\ callLog = <<>>
        /\ lastResp = NoResp

NextRerun ==
    \/ EnterStep
    \/ CallWholeChapter
    \/ RerunSettles
    \/ PassReturns

SpecRerun == InitRerun /\ [][NextRerun]_vars

\* ------------------------------------------------ extractJson taken alone

\* The texts extractJson is called with are put together from a lead, an
\* opening fence, a core, characters after the core, a closing fence and a
\* trail, each of which may be empty.
Fence == <<Backtick, Backtick, Backtick>>

FenceJson == Fence \o <<"j", "s", "o", "n", "\n">>

ObjectText == <<"{", "\"", "a", "\"", ":", "1", "}">>

ArrayText == <<"[", "1", "]">>

\* An object with a line break inside a string, alone and after an escaped
\* quote; an object cut short after an inner object; a number; a word.
RawNewlineText == <<"{", "\"", "a", "\"", ":", "\"", "\n", "\"", "}">>

EscapedRawText ==
    <<"{", "\"", "a", "\"", ":", "\"", "\\", "\"", "\n", "\"", "}">>

TruncatedText == <<"{", "\"", "a", "\"", ":", "{", "}", ",", "\"", "b">>

NumberText == <<"1">>

WordText == <<"x">>

Leads == {<<>>, <<"x", " ">>, <<"[", "x", "]", " ">>, <<"[">>, <<"{">>}

Opens == {<<>>, Fence, FenceJson}

Cores ==
    {<<>>, ObjectText, ArrayText, RawNewlineText, EscapedRawText,
     TruncatedText, NumberText, WordText}

Inners == {<<>>, WordText}

Closes == {<<>>, Fence}

Trails ==
    {<<>>, <<" ", "x">>, <<"}">>, Fence \o ArrayText \o Fence,
     Fence \o WordText \o Fence}

Texts ==
    {lead \o open \o core \o inner \o close \o trail :
        lead \in Leads, open \in Opens, core \in Cores, inner \in Inners,
        close \in Closes, trail \in Trails}

PassAndAppIdle == AppMounted /\ PassIdle

InitParse ==
    /\ PassAndAppIdle
    /\ text \in Texts
    /\ extracted = NotRun
    /\ archResponse = NotRun
    /\ archResult = NotRun
    /\ call = NotRun

\* extractJson(text)
ExtractJson ==
    /\ extracted = NotRun
    /\ extracted' = extractJson(text)
    /\ UNCHANGED <<text, archResponse, archResult, call>>
    /\ UNCHANGED <<passVars, appVars, builderVars, sessionVars>>

NextParse == ExtractJson

SpecParse == InitParse /\ [][NextParse]_vars

\* -------------------------------------------- runArchitectAgent taken alone

\* `Architect failed to generate structure. Model output was not valid JSON.`
MsgArchitectFailed ==
    <<"A", "r", "c", "h", "i", "t", "e", "c", "t", " ", "f", "a", "i", "l",
      "e", "d", " ", "t", "o", " ", "g", "e", "n", "e", "r", "a", "t", "e",
      " ", "s", "t", "r", "u", "c", "t", "u", "r", "e", ".", " ", "M", "o",
      "d", "e", "l", " ", "o", "u", "t", "p", "u", "t", " ", "w", "a", "s",
      " ", "n", "o", "t", " ", "v", "a", "l", "i", "d", " ", "J", "S", "O",
      "N", ".">>

\* The value of a member, JS undefined (here null with has = FALSE) when
\* the value is no object or has no such key.
Member(v, key) ==
    IF v.t = "object" /\ \E i \in 1..Len(v.o) : v.o[i].k = key
    THEN [has |-> TRUE,
          v |-> v.o[CHOOSE i \in 1..Len(v.o) : v.o[i].k = key].v]
    ELSE [has |-> FALSE, v |-> JNull]

\* A value in a condition.
Truthy(v) ==
    CASE v.t \in {"null", "false"} -> FALSE
      [] v.t = "number" -> v.n # 0
      [] v.t = "string" -> v.s # <<>>
      [] OTHER -> TRUE

IsArray(v) == v.t = "array"

KwSections == <<"s", "e", "c", "t", "i", "o", "n", "s">>
KwTitle == <<"t", "i", "t", "l", "e">>
KwId == <<"i", "d">>
KwLevel == <<"l", "e", "v", "e", "l">>

\* The loop over Object.keys(parsed) from key i on: the first non-empty
\* array whose first element has a truthy title or id is the structure;
\* reading a property of a null first element throws a TypeError.
RECURSIVE ScanKeys(_, _)
ScanKeys(members, i) ==
    IF i > Len(members) THEN [threw |-> FALSE, structure |-> <<>>]
    ELSE LET v == members[i].v
         IN  IF IsArray(v) /\ Len(v.a) > 0
             THEN IF v.a[1].t = "null"
                  THEN [threw |-> TRUE, structure |-> <<>>]
                  ELSE IF \/ (Member(v.a[1], KwTitle).has
                                /\ Truthy(Member(v.a[1], KwTitle).v))
                          \/ (Member(v.a[1], KwId).has
                                /\ Truthy(Member(v.a[1], KwId).v))
                       THEN [threw |-> FALSE, structure |-> v.a]
                       ELSE ScanKeys(members, i + 1)
             ELSE ScanKeys(members, i + 1)

\* The structure taken from the parsed value.
StructureOf(parsed) ==
    IF ~Truthy(parsed) THEN [threw |-> FALSE, structure |-> <<>>]
    ELSE IF IsArray(parsed) THEN [threw |-> FALSE, structure |-> parsed.a]
    ELSE IF /\ Member(parsed, KwSections).has
            /\ Truthy(Member(parsed, KwSections).v)
            /\ IsArray(Member(parsed, KwSections).v)
         THEN [threw |-> FALSE, structure |-> Member(parsed, KwSections).v.a]
    ELSE IF parsed.t = "object" THEN ScanKeys(parsed.o, 1)
    ELSE [threw |-> FALSE, structure |-> <<>>]

ArchThrow(msg) == [kind |-> "throw", structure |-> <<>>, msg |-> msg]

ArchReturn(structure) ==
    [kind |-> "return", structure |-> structure, msg |-> <<>>]

\* runArchitectAgent from the settling of its gateway call: an error of
\* callLLM leaves the function as it is; an error of extractJson, a
\* TypeError and an empty structure are replaced by the one error of the
\* catch; any other structure is returned as it was parsed.
runArchitectAgent(response) ==
    IF response.kind = "error" THEN ArchThrow(response.msg)
    ELSE IF response.kind = "malformed" THEN ArchThrow(MsgArchitectFailed)
    ELSE LET s == StructureOf(response.v)
         IN  IF s.threw \/ Len(s.structure) = 0
             THEN ArchThrow(MsgArchitectFailed)
             ELSE ArchReturn(s.structure)

\* Answers to the Outline Builder's request.  Elements of the list: two
\* sections with id, title and level, a section without level, one with
\* level 0, a number, null.
TitleText == <<"#", " ", "T">>

SectionObject(id, level) ==
    JObj(<<[k |-> KwId, v |-> JStr(id)], [k |-> KwTitle, v |-> JStr(TitleText)],
           [k |-> KwLevel, v |-> JNum(level)]>>)

SectionWithoutLevel ==
    JObj(<<[k |-> KwId, v |-> JStr(<<"s", "3">>)],
           [k |-> KwTitle, v |-> JStr(TitleText)]>>)

ListElements ==
    {SectionObject(<<"s", "1">>, 1), SectionObject(<<"s", "2">>, 2),
     SectionWithoutLevel, SectionObject(<<"s", "4">>, 0), JNum(1), JNull}

MaxListLen == 2

Lists ==
    UNION {{[i \in 1..n |-> f[i]] : f \in [1..n -> ListElements]} :
                n \in 0..MaxListLen}

\* The shapes of the answer: the bare list, the list under `sections`,
\* under another key, under another key after a string or after a list of
\* numbers.
KwData == <<"d", "a", "t", "a">>
KwNote == <<"n", "o", "t", "e">>

ShapesOf(list) ==
    {JArr(list),
     JObj(<<[k |-> KwSections, v |-> JArr(list)]>>),
     JObj(<<[k |-> KwData, v |-> JArr(list)]>>),
     JObj(<<[k |-> KwNote, v |-> JStr(<<"x">>)],
            [k |-> KwData, v |-> JArr(list)]>>),
     JObj(<<[k |-> KwNote, v |-> JArr(<<JNum(1)>>)],
            [k |-> KwData, v |-> JArr(list)]>>)}

ParsedAnswers ==
    UNION {ShapesOf(list) : list \in Lists}
    \cup {JNull, JNum(0), JNum(1), JStr(<<"x">>), JBool(TRUE), JObj(<<>>)}

\* What the first two statements hand to the rest of runArchitectAgent: an
\* error of callLLM, the error of extractJson, or the parsed value.
ArchitectResponses ==
    {[kind |-> "error", msg |-> m, v |-> JNull] : m \in GatewayErrors}
    \cup {[kind |-> "malformed", msg |-> MsgFatalJson, v |-> JNull]}
    \cup {[kind |-> "parsed", msg |-> <<>>, v |-> v] : v \in ParsedAnswers}

InitArchitect ==
    /\ PassAndAppIdle
    /\ text = <<>>
    /\ extracted = NotRun
    /\ archResponse \in ArchitectResponses
    /\ archResult = NotRun
    /\ call = NotRun

RunArchitectAgent ==
    /\ archResult = NotRun
    /\ archResult' = runArchitectAgent(archResponse)
    /\ UNCHANGED <<text, extracted, archResponse, call>>
    /\ UNCHANGED <<passVars, appVars, builderVars, sessionVars>>

NextArchitect == RunArchitectAgent

SpecArchitect == InitArchitect /\ [][NextArchitect]_vars

\* ---------------------------------------------------- callLLM taken alone

\* `API_KEY is missing. Please configure Custom API in settings.`
MsgApiKeyMissing ==
    <<"A", "P", "I", "_", "K", "E", "Y", " ", "i", "s", " ", "m", "i",
      "s", "s", "i", "n", "g", ".", " ", "P", "l", "e", "a", "s", "e", " ",
      "c", "o", "n", "f", "i", "g", "u", "r", "e", " ", "C", "u", "s",
      "t", "o", "m", " ", "A", "P", "I", " ", "i", "n", " ", "s", "e",
      "t", "t", "i", "n", "g", "s", ".">>

\* setTimeout(() => controller.abort(), 900000)
TimeoutMs == 900000

\* The clock of a call advances in steps of TickMs, up to MaxTicks steps.
TickMs == 150000
MaxTicks == 8

CeilingTicks == TimeoutMs \div TickMs

\* A call on the user's endpoint, on the default backend with its key, on
\* the default backend without one.
Backends == {"custom", "default", "defaultNoKey"}

HttpStatuses == {200, 401, 404, 500}

CallSettled == call.pc \in {"returned", "thrown"}

InitGateway ==
    /\ PassAndAppIdle
    /\ text = <<>>
    /\ extracted = NotRun
    /\ archResponse = NotRun
    /\ archResult = NotRun
    /\ \E b \in Backends :
          call = [kind |-> "call", backend |-> b, pc |-> "start",
                  timer |-> "unset", elapsed |-> 0, requests |-> 0,
                  status |-> 0, msg |-> <<>>]

GatewayFrame ==
    /\ UNCHANGED <<text, extracted, archResponse, archResult>>
    /\ UNCHANGED <<passVars, appVars, builderVars, sessionVars>>

\* The custom endpoint: the timer is set and fetch is called.
CallCustomEndpoint ==
    /\ call.pc = "start"
    /\ call.backend = "custom"
    /\ call' = [call EXCEPT !.pc = "fetch", !.timer = "armed",
                            !.requests = @ + 1]
    /\ GatewayFrame

\* The default backend: without a key an error at once, otherwise
\* generateContent is called; no timer is set.
CallDefaultBackend ==
    /\ call.pc = "start"
    /\ call.backend # "custom"
    /\ call' = IF call.backend = "defaultNoKey"
               THEN [call EXCEPT !.pc = "thrown", !.msg = MsgApiKeyMissing]
               ELSE [call EXCEPT !.pc = "generate", !.requests = @ + 1]
    /\ GatewayFrame

\* fetch resolves with the status line and the headers: clearTimeout, and
\* the body is awaited (response.text() or response.json()).
FetchResolves ==
    /\ call.pc = "fetch"
    /\ \E st \in HttpStatuses :
          call' = [call EXCEPT !.pc = "body", !.timer = "cleared",
                               !.status = st]
    /\ GatewayFrame

\* fetch rejects with the TypeError of a failed connection.
FetchRejects ==
    /\ call.pc = "fetch"
    /\ call' = [call EXCEPT !.pc = "thrown", !.msg = MsgNetwork]
    /\ GatewayFrame

\* The timer fires: controller.abort() rejects a pending fetch with an
\* AbortError, and does nothing to a call that has left fetch.
AbortFires ==
    /\ call.timer = "armed"
    /\ call.elapsed >= CeilingTicks
    /\ call' = IF call.pc = "fetch"
               THEN [call EXCEPT !.timer = "fired", !.pc = "thrown",
                                 !.msg = MsgTimeout]
               ELSE [call EXCEPT !.timer = "fired"]
    /\ GatewayFrame

\* What the body gives: the error of its status, or for a 200 the content,
\* no content, or a body that is not JSON.
BodyOutcomes(st) ==
    CASE st = 401 -> {[pc |-> "thrown", msg |-> MsgUnauthorized]}
      [] st = 404 -> {[pc |-> "thrown", msg |-> MsgNotFound]}
      [] st = 500 -> {[pc |-> "thrown", msg |-> MsgHttp500]}
      [] OTHER -> {[pc |-> "returned", msg |-> <<>>],
                   [pc |-> "thrown", msg |-> MsgEmpty],
                   [pc |-> "thrown", msg |-> MsgBodyNotJson]}

BodyArrives ==
    /\ call.pc = "body"
    /\ \E o \in BodyOutcomes(call.status) :
          call' = [call EXCEPT !.pc = o.pc, !.msg = o.msg]
    /\ GatewayFrame

\* generateContent settles: the text, the quota error, another error.
GenerateSettles ==
    /\ call.pc = "generate"
    /\ \E o \in {[pc |-> "returned", msg |-> <<>>],
                 [pc |-> "thrown", msg |-> MsgQuota],
                 [pc |-> "thrown", msg |-> MsgNetwork]} :
          call' = [call EXCEPT !.pc = o.pc, !.msg = o.msg]
    /\ GatewayFrame

\* Time passes while the call waits; a timer that is due fires first.
Tick ==
    /\ call.pc \in {"fetch", "body", "generate"}
    /\ call.elapsed < MaxTicks
    /\ ~(call.timer = "armed" /\ call.elapsed >= CeilingTicks)
    /\ call' = [call EXCEPT !.elapsed = @ + 1]
    /\ GatewayFrame

NextGateway ==
    \/ CallCustomEndpoint
    \/ CallDefaultBackend
    \/ FetchResolves
    \/ FetchRejects
    \/ AbortFires
    \/ BodyArrives
    \/ GenerateSettles
    \/ Tick

SpecGateway == InitGateway /\ [][NextGateway]_vars

\* --------------------------------------- a pass whose calls are all answered

\* Longest outline of a pass whose every call is answered in full.
MaxFullSections == 4

\* Outlines with nothing filled, of any levels: the first section may be a
\* subsection, and any number of sections may be chapters.
UnfilledOutlines ==
    UNION {
        {MakeOutline(lv, {}, skipAt) :
            lv \in [1..n -> {1, 2}], skipAt \in {0, 1}}
        : n \in 1..MaxFullSections}

InitFull ==
    \E outline \in UnfilledOutlines :
      \E agent \in {AgentPlanner, AgentVisuals} :
        /\ AppMounted
        /\ ServiceIdle
        /\ op = StepOp(agent)
        /\ callerStructure = outline
        /\ currentStructure = outline
        /\ passInput = outline
        /\ newStructure = <<>>
        /\ passNo = 0
        /\ agentName = <<>>
        /\ onlyMissing = FALSE
        /\ pc = "entry"
        /\ chIdx = 0
        /\ chunks = <<>>
        /\ chunkIdx = 0
        /\ inFlight = 0
        /\ callLog = <<>>
        /\ lastResp = NoResp

\* The object that maps every requested id to text.
FullMapping(structure, batch) ==
    [kind |-> "object", msg |-> <<>>,
     map |-> [k \in {structure[batch[j]].id : j \in 1..Len(batch)}
                |-> NewText]]

\* The whole-chapter call settles with a full mapping for its batch.
FullSettles ==
    SettleWholeChapter({FullMapping(newStructure, sectionsToProcess)})

NextFull ==
    \/ EnterStep
    \/ SkipChapter
    \/ CallWholeChapter
    \/ FullSettles
    \/ PassReturns

SpecFull == InitFull /\ [][NextFull]_vars

\* ------------------------------------ content writes of values with headings

\* Longest outline of an operation answered with heading values.
MaxHeadingSections == 2

\* The content-mode operations: a generation pass, the final agent's
\* repair, a regeneration of selected sections by the content agent.
InitHeadings ==
    \E outline \in {MakeOutline(lv, {}, 0) :
                      lv \in UNION {LevelsOf(n) :
                                      n \in 1..MaxHeadingSections}} :
      \E o \in {StepOp(AgentPlanner), StepOp(AgentFinal)}
               \cup {RegenOp(AgentPlanner, S) :
                       S \in SUBSET KeysOf(outline) \ {{}}} :
        /\ AppMounted
        /\ ServiceIdle
        /\ op = o
        /\ callerStructure = outline
        /\ currentStructure = outline
        /\ passInput = outline
        /\ newStructure = <<>>
        /\ passNo = 0
        /\ agentName = <<>>
        /\ onlyMissing = FALSE
        /\ pc = "entry"
        /\ chIdx = 0
        /\ chunks = <<>>
        /\ chunkIdx = 0
        /\ inFlight = 0
        /\ callLog = <<>>
        /\ lastResp = NoResp

NextHeadings ==
    \/ EnterStep
    \/ EnterRegen
    \/ SkipChapter
    \/ CallWholeChapter
    \/ HeadingSettles
    \/ HeadingRegenSettles
    \/ ContentRepairReturns
    \/ PassReturns

SpecHeadings == InitHeadings /\ [][NextHeadings]_vars

\* ------------------------------------------------- deleting at a checkpoint

\* Longest outline sections are deleted from.
MaxDeleteSections == 4

\* The application at the checkpoint after the content or the visuals
\* agent, with an outline of three or four filled sections.
InitDelete ==
    \E index \in {1, 2} :
      \E outline \in {MakeOutline(lv, DOMAIN lv, 0) :
                        lv \in LevelsOf(3) \cup LevelsOf(MaxDeleteSections)} :
        /\ BuilderMounted
        /\ NoFiles
        /\ thesisStructure = outline
        /\ currentAgentIndex = index
        /\ isWorking = FALSE
        /\ isPaused = TRUE
        /\ selectedSectionIds = {}
        /\ agentStatus = [i \in 1..Len(INITIAL_AGENTS) |->
                            IF i <= index + 1 THEN "completed" ELSE "waiting"]
        /\ pending = {}
        /\ lastOutcome = [seq |-> 1, ok |-> TRUE]
        /\ savedSession = NoSession
        /\ used = [starts |-> 1, saves |-> 0, loads |-> 0, overlaps |-> 0]
        /\ PassIdle
        /\ ServiceIdle

NextDelete ==
    \/ ToggleSectionSelection
    \/ HandleDeleteSelected

SpecDelete == InitDelete /\ [][NextDelete]_vars

\* ------------------------------------------- the designer beside a workflow

\* The operator edits the agent list and runs workflows; the dialog of the
\* designer covers the page, so a workflow is started with it closed.
NextBuilder ==
    \/ HandleOpenAddModal
    \/ CancelAddModal
    \/ HandleCreateAgent
    \/ PromptSettles
    \/ HandleRemoveAgent
    \/ (~isAddModalOpen /\ StartWorkflow)
    \/ (~isAddModalOpen /\ HandleContinue)
    \/ StepSettles

SpecBuilder == InitApp /\ [][NextBuilder]_vars

\* ------------------------------------------------ the application, scheduled

\* Most times a scheduled run starts a step while another is pending.
MaxRunOverlaps == 2

\* The checkpoint after the second agent of a workflow: the architect has
\* returned an outline and the planner has worked on it.
InitCheckpoint ==
    \E a \in ArchitectOutlines :
      \E outline \in PassResults(a, INITIAL_AGENTS[2].name, FALSE) :
        /\ BuilderMounted
        /\ NoFiles
        /\ thesisStructure = outline
        /\ currentAgentIndex = 1
        /\ isWorking = FALSE
        /\ isPaused = TRUE
        /\ selectedSectionIds = {}
        /\ agentStatus = [i \in 1..Len(INITIAL_AGENTS) |->
                            IF i <= 2 THEN "completed" ELSE "waiting"]
        /\ pending = {}
        /\ lastOutcome = [seq |-> 1, ok |-> TRUE]
        /\ savedSession = NoSession
        /\ used = [starts |-> 1, saves |-> 0, loads |-> 0, overlaps |-> 0]
        /\ PassIdle
        /\ ServiceIdle

\* The rest of the workflow, with sessions saved and loaded on the way.
NextRun ==
    \/ ((ContinueStarts => WithinOverlaps(MaxRunOverlaps)) /\ HandleContinue)
    \/ StepSettles
    \/ HandleSaveSession
    \/ HandleFileChange

\* Every call of the service returns or fails, so a pending step settles;
\* the operator continues at a checkpoint.
SpecRunFair ==
    /\ InitCheckpoint
    /\ [][NextRun]_vars
    /\ WF_vars(StepSettles)
    /\ SF_vars(HandleContinue)

\* ---------------------------------------------------------- the session file

\* The keys of the session file and of the objects in it.
KeyTimestamp == <<"t", "i", "m", "e", "s", "t", "a", "m", "p">>
KeyInput == <<"i", "n", "p", "u", "t">>
KeyAgents == <<"a", "g", "e", "n", "t", "s">>
KeyThesisStructure ==
    <<"t", "h", "e", "s", "i", "s", "S", "t", "r", "u", "c", "t", "u", "r",
      "e">>
KeyDocHistory == <<"d", "o", "c", "H", "i", "s", "t", "o", "r", "y">>
KeyLogs == <<"l", "o", "g", "s">>
KeyCurrentAgentIndex ==
    <<"c", "u", "r", "r", "e", "n", "t", "A", "g", "e", "n", "t", "I", "n",
      "d", "e", "x">>
KeyIsPaused == <<"i", "s", "P", "a", "u", "s", "e", "d">>
KeyIsWorking == <<"i", "s", "W", "o", "r", "k", "i", "n", "g">>
KeyField == <<"f", "i", "e", "l", "d">>
KeyTopic == <<"t", "o", "p", "i", "c">>
KeySpecificFocus ==
    <<"s", "p", "e", "c", "i", "f", "i", "c", "F", "o", "c", "u", "s">>
KeyName == <<"n", "a", "m", "e">>
KeyStatus == <<"s", "t", "a", "t", "u", "s">>
KeyContent == <<"c", "o", "n", "t", "e", "n", "t">>
KeyVisuals == <<"v", "i", "s", "u", "a", "l", "s">>
KeyTime == <<"t", "i", "m", "e">>
KeyMessage == <<"m", "e", "s", "s", "a", "g", "e">>
KeyType == <<"t", "y", "p", "e">>

\* The message logged by handleSaveSession.
MsgSaved ==
    <<"u8FDB", "u5EA6", "u5DF2", "u4FDD", "u5B58", "u4E3A", " ", "J", "S",
      "O", "N", " ", "u6587", "u4EF6", "u3002">>

\* The message logged by reader.onload after a file is taken.
MsgLoaded ==
    <<"u8FDB", "u5EA6", "u52A0", "u8F7D", "u6210", "u529F", "uFF01",
      "u8BF7", "u68C0", "u67E5", "u72B6", "u6001", "u5E76", "u7EE7",
      "u7EED", "u3002">>

Pair(key, v) == [k |-> key, v |-> v]

\* An id, a status or a log type is one token of the text.
JToken(word) == JStr(<<word>>)

\* JSON.stringify leaves out a member whose value is undefined.
OptionalText(key, s) ==
    IF s = Undefined THEN <<>> ELSE <<Pair(key, JStr(s))>>

InputValue(i) ==
    JObj(<<Pair(KeyField, JStr(i.field)), Pair(KeyTopic, JStr(i.topic)),
           Pair(KeySpecificFocus, JStr(i.specificFocus))>>)

\* The agents carry their status.
AgentsValue(list, statuses) ==
    JArr([k \in 1..Len(list) |->
            JObj(<<Pair(KwId, JToken(list[k].id)),
                   Pair(KeyName, JStr(list[k].name)),
                   Pair(KeyStatus, JToken(statuses[k]))>>)])

StructureValue(structure) ==
    JArr([k \in 1..Len(structure) |->
            JObj(<<Pair(KwId, JToken(structure[k].id)),
                   Pair(KwTitle, JStr(structure[k].title)),
                   Pair(KwLevel, JNum(structure[k].level))>>
                 \o OptionalText(KeyContent, structure[k].content)
                 \o OptionalText(KeyVisuals, structure[k].visuals))])

\* docHistory: the markdown by agent id, in the order of the keys.
DocHistoryValue(history) ==
    JObj([k \in 1..Len(history) |->
            Pair(<<history[k].id>>, JStr(history[k].markdown))])

LogLine(time, message, type) ==
    [time |-> time, message |-> message, type |-> type]

LogsValue(lines) ==
    JArr([k \in 1..Len(lines) |->
            JObj(<<Pair(KeyTime, JStr(lines[k].time)),
                   Pair(KeyMessage, JStr(lines[k].message)),
                   Pair(KeyType, JToken(lines[k].type))>>)])

\* new Date().toISOString(), to the day.
Timestamp == <<"2", "0", "2", "5", "-", "0", "1", "-", "0", "1">>

\* sessionData of handleSaveSession.
SessionData ==
    JObj(<<Pair(KeyTimestamp, JStr(Timestamp)),
           Pair(KeyInput, InputValue(input)),
           Pair(KeyAgents, AgentsValue(agents, agentStatus)),
           Pair(KeyThesisStructure, StructureValue(thesisStructure)),
           Pair(KeyDocHistory, DocHistoryValue(docHistory)),
           Pair(KeyLogs, LogsValue(logs)),
           Pair(KeyCurrentAgentIndex, JNum(currentAgentIndex)),
           Pair(KeyIsPaused, JBool(isPaused)),
           Pair(KeyIsWorking, JBool(isWorking))>>)

\* The decimal digits of a natural number, and of an integer.
RECURSIVE DigitsText(_)
DigitsText(n) ==
    IF n < 10 THEN <<Digits[n + 1]>>
    ELSE DigitsText(n \div 10) \o <<Digits[(n % 10) + 1]>>

IntegerText(n) ==
    IF n < 0 THEN <<"-">> \o DigitsText(0 - n) ELSE DigitsText(n)

\* A string is written between quotes; a quote, a backslash and a control
\* character are written as escapes.
WithoutEscape(c) == <<c>>

EscapeChar(c) ==
    CASE c = "\"" -> <<"\\", "\"">>
      [] c = "\\" -> <<"\\", "\\">>
      [] c = "\n" -> <<"\\", "n">>
      [] c = "\r" -> <<"\\", "r">>
      [] c = "\t" -> <<"\\", "t">>
      [] OTHER -> <<c>>

RECURSIVE QuoteFrom(_, _)
QuoteFrom(s, k) ==
    IF k > Len(s) THEN <<"\"">> ELSE EscapeChar(s[k]) \o QuoteFrom(s, k + 1)

Quote(s) == <<"\"">> \o QuoteFrom(s, 1)

\* The third argument of JSON.stringify: two spaces for every level.
Indent == <<" ", " ">>

\* JSON.stringify(v, null, 2) at the indentation gap.
RECURSIVE Stringify(_, _)
RECURSIVE StringifyElements(_, _, _)
RECURSIVE StringifyMembers(_, _, _)

Stringify(v, gap) ==
    CASE v.t = "null" -> <<"n", "u", "l", "l">>
      [] v.t = "true" -> <<"t", "r", "u", "e">>
      [] v.t = "false" -> <<"f", "a", "l", "s", "e">>
      [] v.t = "number" -> IntegerText(v.n)
      [] v.t = "string" -> Quote(v.s)
      [] v.t = "array" ->
            IF v.a = <<>> THEN <<"[", "]">>
            ELSE <<"[">> \o StringifyElements(v.a, 1, gap \o Indent)
                 \o <<"\n">> \o gap \o <<"]">>
      [] v.t = "object" ->
            IF v.o = <<>> THEN <<"{", "}">>
            ELSE <<"{">> \o StringifyMembers(v.o, 1, gap \o Indent)
                 \o <<"\n">> \o gap \o <<"}">>

StringifyElements(a, k, gap) ==
    IF k > Len(a) THEN <<>>
    ELSE <<"\n">> \o gap \o Stringify(a[k], gap)
         \o (IF k < Len(a) THEN <<",">> ELSE <<>>)
         \o StringifyElements(a, k + 1, gap)

StringifyMembers(o, k, gap) ==
    IF k > Len(o) THEN <<>>
    ELSE <<"\n">> \o gap \o Quote(o[k].k) \o <<":", " ">>
         \o Stringify(o[k].v, gap)
         \o (IF k < Len(o) THEN <<",">> ELSE <<>>)
         \o StringifyMembers(o, k + 1, gap)

JSONstringify(v) == Stringify(v, <<>>)

\* What the setters of reader.onload are given, as the state holds it.
TextOf(v, key) == Member(v, key).v.s

TokenOf(v, key) == Member(v, key).v.s[1]

TextOrUndefined(v, key) ==
    IF Member(v, key).has THEN Member(v, key).v.s ELSE Undefined

ReadInput(v) ==
    [field |-> TextOf(v, KeyField), topic |-> TextOf(v, KeyTopic),
     specificFocus |-> TextOf(v, KeySpecificFocus)]

ReadAgents(v) ==
    [k \in 1..Len(v.a) |->
        [id |-> TokenOf(v.a[k], KwId), name |-> TextOf(v.a[k], KeyName)]]

ReadStatuses(v) == [k \in 1..Len(v.a) |-> TokenOf(v.a[k], KeyStatus)]

ReadStructure(v) ==
    [k \in 1..Len(v.a) |->
        Section(TokenOf(v.a[k], KwId), TextOf(v.a[k], KwTitle),
                Member(v.a[k], KwLevel).v.n,
                TextOrUndefined(v.a[k], KeyContent),
                TextOrUndefined(v.a[k], KeyVisuals))]

ReadDocHistory(v) ==
    [k \in 1..Len(v.o) |-> [id |-> v.o[k].k[1], markdown |-> v.o[k].v.s]]

ReadLogs(v) ==
    [k \in 1..Len(v.a) |->
        LogLine(TextOf(v.a[k], KeyTime), TextOf(v.a[k], KeyMessage),
                TokenOf(v.a[k], KeyType))]

\* toLocaleTimeString at the moments a line is logged.
Times == {<<"0", "9", ":", "0", "0">>, <<"0", "9", ":", "0", "5">>}

\* What the file carries of the application state.
SessionState ==
    <<input, agents, agentStatus, thesisStructure, docHistory, logs,
      currentAgentIndex, isPaused, isWorking>>

\* handleSaveSession: the file is written from the state, then a line is
\* logged.
SaveSession ==
    /\ isPaused
    /\ used.saves < MaxSaves
    /\ used' = [used EXCEPT !.saves = @ + 1]
    /\ sessionFile' = JSONstringify(SessionData)
    /\ savedValues' =
          <<[input |-> input, agents |-> agents, agentStatus |-> agentStatus,
             thesisStructure |-> thesisStructure, docHistory |-> docHistory,
             logs |-> logs, currentAgentIndex |-> currentAgentIndex,
             isPaused |-> isPaused]>>
    /\ \E time \in Times :
          logs' = Append(logs, LogLine(time, MsgSaved, "success"))
    /\ UNCHANGED <<input, docHistory, reading>>
    /\ UNCHANGED <<thesisStructure, currentAgentIndex, isWorking, isPaused,
                   selectedSectionIds, agentStatus, pending, lastOutcome,
                   savedSession>>
    /\ UNCHANGED <<passVars, svcVars, builderVars>>

\* Files that are not session files: an empty file, a word, null, an
\* object without input, an object without thesisStructure.
ForeignFiles ==
    {<<>>,
     <<"o", "o", "p", "s">>,
     JSONstringify(JNull),
     JSONstringify(JObj(<<Pair(KeyThesisStructure, JArr(<<>>))>>)),
     JSONstringify(JObj(<<Pair(KeyInput, InputValue(TypedInput))>>))}

\* handleFileChange: the operator picks the file saved last or a foreign
\* one, and a FileReader starts reading it.  One file is read at a time.
ChooseFile ==
    /\ reading = <<>>
    /\ used.loads < MaxLoads
    /\ used' = [used EXCEPT !.loads = @ + 1]
    /\ \E t \in ForeignFiles
                  \cup (IF sessionFile = <<>> THEN {} ELSE {sessionFile}) :
          reading' = <<t>>
    /\ UNCHANGED <<input, docHistory, logs, sessionFile, savedValues>>
    /\ UNCHANGED <<thesisStructure, currentAgentIndex, isWorking, isPaused,
                   selectedSectionIds, agentStatus, pending, lastOutcome,
                   savedSession>>
    /\ UNCHANGED <<passVars, svcVars, builderVars>>

\* reader.onload: JSON.parse throws on a text that is no JSON, reading a
\* member of null throws a TypeError, and the catch block only alerts; a
\* file without input or thesisStructure only alerts; any other file is
\* taken and a line is logged.
ReaderOnload ==
    /\ reading # <<>>
    /\ reading' = <<>>
    /\ LET parsed == JSONparse(reading[1])
           json == parsed.v
           logsRead == Member(json, KeyLogs).v
           index == Member(json, KeyCurrentAgentIndex)
       IN  IF /\ parsed.ok
              /\ json.t # "null"
              /\ Truthy(Member(json, KeyInput).v)
              /\ Truthy(Member(json, KeyThesisStructure).v)
           THEN /\ input' = ReadInput(Member(json, KeyInput).v)
                /\ agents' = ReadAgents(Member(json, KeyAgents).v)
                /\ agentStatus' = ReadStatuses(Member(json, KeyAgents).v)
                /\ thesisStructure' =
                      ReadStructure(Member(json, KeyThesisStructure).v)
                /\ docHistory' =
                      ReadDocHistory(Member(json, KeyDocHistory).v)
                /\ \E time \in Times :
                      logs' = Append(IF Truthy(logsRead)
                                     THEN ReadLogs(logsRead) ELSE <<>>,
                                     LogLine(time, MsgLoaded, "success"))
                /\ currentAgentIndex' =
                      IF index.has /\ index.v.t # "null"
                      THEN index.v.n ELSE 0 - 1
                /\ isPaused' = Truthy(Member(json, KeyIsPaused).v)
                /\ isWorking' = FALSE
           ELSE UNCHANGED SessionState
    /\ UNCHANGED <<sessionFile, savedValues>>
    /\ UNCHANGED <<selectedSectionIds, pending, lastOutcome, savedSession,
                   used>>
    /\ UNCHANGED <<isAddModalOpen, insertIndex, isGeneratingPrompt>>
    /\ UNCHANGED <<passVars, svcVars>>

\* The page is loaded again: every useState is back at its initial value,
\* what was awaited is gone, the files stay on the disk.
ReloadPage ==
    /\ BuilderMounted
           => (logs # <<>> \/ thesisStructure # <<>> \/ input # EmptyInput)
    /\ agents' = INITIAL_AGENTS
    /\ isAddModalOpen' = FALSE
    /\ insertIndex' = 0
    /\ isGeneratingPrompt' = FALSE
    /\ input' = EmptyInput
    /\ docHistory' = <<>>
    /\ logs' = <<>>
    /\ reading' = <<>>
    /\ thesisStructure' = <<>>
    /\ currentAgentIndex' = 0 - 1
    /\ isWorking' = FALSE
    /\ isPaused' = FALSE
    /\ selectedSectionIds' = {}
    /\ agentStatus' = [i \in 1..Len(INITIAL_AGENTS) |-> "idle"]
    /\ pending' = {}
    /\ UNCHANGED <<sessionFile, savedValues, lastOutcome, savedSession, used>>
    /\ UNCHANGED <<passVars, svcVars>>

\* A text with a quote, a backslash and a line break in it.
QuotedText == <<"\"", "a", "\\", "\n", "b">>

\* Outlines at a checkpoint: sections with and without content.
SessionOutlines ==
    {MakeOutline(lv, filled, 0) :
        lv \in LevelsOf(2), filled \in SUBSET (1..2)}
      \cup {<<Section("s1", TitleMethod, 1, QuotedText, Undefined)>>}

\* The markdown an agent has left in the history.
SampleMarkdown == <<"#", " ", "T", "\n", "o">>

\* A checkpoint of a workflow, a regeneration asked for or not: the agents
\* up to the pointer have completed and left their markdown.
InitSession ==
    \E outline \in SessionOutlines :
      \E index \in 0..(Len(INITIAL_AGENTS) - 1) :
        \E working \in BOOLEAN :
          /\ BuilderMounted
          /\ input = TypedInput
          /\ docHistory = [i \in 1..(index + 1) |->
                             [id |-> INITIAL_AGENTS[i].id,
                              markdown |-> SampleMarkdown]]
          /\ \E time \in Times : logs = <<LogLine(time, <<"o", "k">>, "info")>>
          /\ sessionFile = <<>>
          /\ savedValues = <<>>
          /\ reading = <<>>
          /\ thesisStructure = outline
          /\ currentAgentIndex = index
          /\ isPaused = TRUE
          /\ isWorking = working
          /\ working => outline[1].content # Undefined
          /\ selectedSectionIds = IF working THEN {outline[1].id} ELSE {}
          /\ pending =
                IF working
                THEN {[seq |-> 1, kind |-> "regen", index |-> index,
                       agent |-> INITIAL_AGENTS[index + 1],
                       input |-> outline, ids |-> {outline[1].id},
                       overtaken |-> FALSE]}
                ELSE {}
          /\ agentStatus = [i \in 1..Len(INITIAL_AGENTS) |->
                              IF i <= index + 1 THEN "completed"
                              ELSE "waiting"]
          /\ lastOutcome = [seq |-> 1, ok |-> TRUE]
          /\ savedSession = NoSession
          /\ used = [starts |-> 1, saves |-> 0, loads |-> 0, overlaps |-> 0]
          /\ PassIdle
          /\ ServiceIdle

NextSession ==
    \/ SaveSession
    \/ ChooseFile
    \/ ReaderOnload
    \/ ReloadPage

SpecSession == InitSession /\ [][NextSession]_vars

\* The loop over the chapters has run to its end.
PassEnded == pc = "returned" \/ (pc = "loop" /\ chIdx > Len(chapters))

SeqToSet(s) == {s[k] : k \in 1..Len(s)}

\* The root of a chapter and its children.
ChapterSections(chapter) == {chapter.root} \cup SeqToSet(chapter.children)

\* The batch of the call that is pending.
PendingBatch ==
    IF pc = "awaitWhole" THEN sectionsToProcess ELSE chunks[chunkIdx]

\* The calls the pass logged for chapter c.
CallsOf(c) == {k \in 1..Len(callLog) : callLog[k].ch = c}

\* C1: after a gap-repair pass, every chapter of its input in which some
\* section (root or child) has a non-empty target field holds, section by
\* section, what it held in the input.
C1_GapRepairKeepsPartChapters ==
    (op.kind = "step" /\ onlyMissing /\ PassEnded) =>
        \A c \in 1..Len(ChaptersOf(passInput)) :
            LET sections == ChapterSections(ChaptersOf(passInput)[c])
            IN  (\E i \in sections : ~IsMissing(passInput[i], isVisuals))
                    => \A i \in sections : newStructure[i] = passInput[i]

\* C1, the case that fails: content repair ended with a section that had
\* content holding the returned text instead.  Its chapter was not called
\* for, or it is a root outside the batch of its chapter: the id came back
\* in the answer to another request.
C1_FilledSectionOverwritten ==
    /\ op.kind = "step" /\ onlyMissing /\ ~isVisuals /\ PassEnded
    /\ \E i \in 1..Len(passInput) :
          passInput[i].content = OldText /\ newStructure[i].content = NewText

\* C1, a second case that fails: content repair of a chapter whose root has
\* content and whose only subsection has none ended with the subsection
\* rewritten.
C1_FilledRootChildRewritten ==
    /\ op.kind = "step" /\ onlyMissing /\ ~isVisuals /\ PassEnded
    /\ Len(passInput) = 2
    /\ passInput[1].content = OldText
    /\ passInput[2].level = 2
    /\ passInput[2].content = Undefined
    /\ newStructure[2].content = NewText

\* C2: a gateway error settling a whole-chapter or sub-batch call ends the
\* pass with that error, and the split is entered only on malformed output.
C2_GatewayErrorsPropagate ==
    [][(op.kind = "step" /\ pc \in {"awaitWhole", "awaitChunk"}) =>
          /\ lastResp' = "error" => pc' = "thrown"
          /\ (pc = "awaitWhole" /\ pc' = "chunkLoop")
                => lastResp' = "malformed"]_vars

\* C2, the case that fails: the whole-chapter call failed at the gateway
\* and the pass is in safety batch mode.
C2_GatewayErrorSplits ==
    op.kind = "step" /\ pc = "chunkLoop" /\ chunkIdx = 1 /\ lastResp = "error"

\* Three contiguous sub-batches, sizes differing by at most one, covering
\* the batch once.
ThreeEvenChunks(batch, cs) ==
    /\ Len(cs) = 3
    /\ cs[1] \o cs[2] \o cs[3] = batch
    /\ \A j, k \in 1..3 : Len(cs[j]) - Len(cs[k]) <= 1

\* C3: malformed output for a batch of three or more sections splits it
\* into three even contiguous sub-batches, and a chapter whose sub-batches
\* were all called used four calls.
C3_SplitIntoThree ==
    /\ [][(op.kind = "step" /\ pc = "awaitWhole" /\ pc' = "chunkLoop"
            /\ lastResp' = "malformed" /\ Len(sectionsToProcess) >= 3)
           => ThreeEvenChunks(sectionsToProcess, chunks')]_vars
    /\ [](\A k \in 1..Len(callLog) :
            (/\ op.kind = "step" /\ pc = "loop"
             /\ k = Len(callLog)
             /\ callLog[k].kind = "chunk"
             /\ Len(SectionsToProcess(chapters[callLog[k].ch])) >= 3)
            => Cardinality(CallsOf(callLog[k].ch)) = 4)

\* C3, the case that fails: a chapter of four subsections is retried in two
\* sub-batches of two.
C3_FourSectionsTwoChunks ==
    /\ op.kind = "step" /\ pc = "chunkLoop" /\ lastResp = "malformed"
    /\ Len(sectionsToProcess) = 4
    /\ Len(chunks) = 2

\* C4: a pass makes at most four calls for a chapter, one for the whole
\* chapter and at most three for sub-batches; no two sub-batch calls share a
\* section, so none is repeated and none is a part of a failed one.
C4_AtMostFourCallsPerChapter ==
    op.kind = "step" =>
        \A c \in {callLog[k].ch : k \in 1..Len(callLog)} :
            /\ Cardinality(CallsOf(c)) <= 4
            /\ Cardinality({k \in CallsOf(c) : callLog[k].kind = "whole"}) <= 1
            /\ \A j, k \in CallsOf(c) :
                  (j < k /\ callLog[j].kind = "chunk"
                         /\ callLog[k].kind = "chunk")
                  => SeqToSet(callLog[j].batch)
                        \cap SeqToSet(callLog[k].batch) = {}

\* C4, its case: the third sub-batch of a chapter failed too, after four
\* calls, and the loop has moved on.
C4_FourCallsLastFailed ==
    /\ op.kind = "step" /\ pc = "loop" /\ lastResp = "malformed"
    /\ \E c \in 1..Len(chapters) : Cardinality(CallsOf(c)) = 4

\* C5: malformed output for a sub-batch leaves every section as it was,
\* the loop goes on to the next sub-batch or the next chapter, and a pass
\* never ends in an error on malformed output.
C5_PartialCompletion ==
    /\ [][(op.kind = "step" /\ pc = "awaitChunk" /\ lastResp' = "malformed"
            /\ inFlight' < inFlight)
           => /\ newStructure' = newStructure
              /\ \/ pc' = "chunkLoop" /\ chunkIdx' = chunkIdx + 1
                 \/ pc' = "loop" /\ chIdx' = chIdx + 1
                        /\ chunkIdx = Len(chunks)]_vars
    /\ []((op.kind = "step" /\ pc = "thrown") => lastResp = "error")

\* C5, its case: a pass returned after sub-batch calls, the last of them
\* malformed, with nothing written.
C5_ReturnedAfterFailedChunks ==
    /\ op.kind = "step" /\ pc = "returned" /\ lastResp = "malformed"
    /\ \E k \in 1..Len(callLog) : callLog[k].kind = "chunk"
    /\ newStructure = passInput

\* C6: a settled batch call changes nothing but the target field of the
\* sections of its batch.
C6_BatchWritesOnlyItsBatch ==
    [][(op.kind = "step" /\ pc \in {"awaitWhole", "awaitChunk"}) =>
          \A i \in 1..Len(newStructure) :
              IF i \in SeqToSet(PendingBatch)
              THEN newStructure'[i] =
                     IF isVisuals
                     THEN [newStructure[i] EXCEPT
                             !.visuals = newStructure'[i].visuals]
                     ELSE [newStructure[i] EXCEPT
                             !.content = newStructure'[i].content]
              ELSE newStructure'[i] = newStructure[i]]_vars

\* C6, the case that fails: the only call of the pass was for the second
\* chapter, and a section of the first chapter is not what it was.
C6_OtherChapterWritten ==
    /\ op.kind = "step" /\ pc = "loop"
    /\ Len(callLog) = 1
    /\ callLog[1].ch = 2
    /\ \E i \in 1..Len(newStructure) :
          i < chapters[2].root /\ newStructure[i] # passInput[i]

\* C7: in a visuals-mode pass or regeneration a section whose title
\* matches the skip keywords keeps the visuals it had.
C7_SkipListKeepsVisuals ==
    (pc # "entry" /\ isVisuals) =>
        \A i \in 1..Len(passInput) :
            MatchesSkipKeyword(passInput[i].title)
                => newStructure[i].visuals = passInput[i].visuals

\* C7, the case that fails: a subsection titled as the references, under
\* a chapter whose title matches no keyword, received visuals.
C7_ReferencesSubsectionWritten ==
    /\ pc # "entry" /\ isVisuals
    /\ \E i \in 1..Len(passInput) :
          /\ passInput[i].title = TitleCanKaoWenXian
          /\ passInput[i].visuals = Undefined
          /\ newStructure[i].visuals = NewText

\* A pass or a regeneration writes into its copy alone: the outline passed
\* to it, and the object the caller holds, stay as they were.
PassKeepsItsInput ==
    /\ [](pc \notin {"entry", "idle"} => currentStructure = passInput)
    /\ [][callerStructure' = callerStructure]_vars

\* C9: at most one call of a pass is pending, chapters are called in the
\* order of the outline, the whole chapter before its sub-batches, and the
\* sub-batches in the order of their sections.
C9_CallsAreSequential ==
    op.kind = "step" =>
        /\ inFlight \in {0, 1}
        /\ \A j, k \in 1..Len(callLog) :
              j < k =>
                /\ callLog[j].ch <= callLog[k].ch
                /\ callLog[j].ch = callLog[k].ch => callLog[k].kind = "chunk"
                /\ (callLog[j].ch < callLog[k].ch
                        \/ callLog[j].kind = "chunk")
                    => \A a \in SeqToSet(callLog[j].batch),
                          b \in SeqToSet(callLog[k].batch) : a < b

\* C9, its case: the second sub-batch call of the second chapter called is
\* pending.
C9_SecondChapterSecondChunk ==
    /\ op.kind = "step" /\ pc = "awaitChunk" /\ chunkIdx = 2 /\ inFlight = 1
    /\ \E k \in 1..Len(callLog) : callLog[k].ch < chIdx

\* C11: the copy a pass or a regeneration works on, and returns, has the
\* sections of its input, position by position the same id and level; in
\* a content, visuals or gap-repair pass the same title too.
C11_ShapeIsKept ==
    pc \notin {"entry", "idle"} =>
        /\ Len(newStructure) = Len(passInput)
        /\ \A i \in 1..Len(passInput) :
              /\ newStructure[i].id = passInput[i].id
              /\ newStructure[i].level = passInput[i].level
              /\ op.kind = "step"
                    => newStructure[i].title = passInput[i].title

\* C11, its case: a pass over two chapters returned after writing a
\* section of each.
C11_ReturnedAfterWrites ==
    /\ pc = "returned"
    /\ op.kind = "step"
    /\ Len(chapters) = 2
    /\ \E i, j \in 1..Len(newStructure) :
          /\ i < chapters[2].root /\ chapters[2].root <= j
          /\ newStructure[i] # passInput[i]
          /\ newStructure[j] # passInput[j]

\* C18: the final agent runs its two passes in order.  Visuals repair begins
\* only at the return of content repair, with no call of content repair
\* pending and every chapter passed, and its input is exactly the outline
\* content repair returned; a pass that has thrown stays thrown, so after a
\* failure of content repair no visuals-repair call is ever issued.
C18_RepairPassesInOrder ==
    /\ [](passNo = 2 => (op.kind = "step" /\ op.agent.id = "final_draft"))
    /\ [](\A k \in 1..Len(callLog) : callLog[k].pass = passNo)
    /\ [][/\ (passNo # 2 /\ passNo' = 2) =>
                /\ passNo = 1
                /\ agentName = NameContentFix
                /\ pc = "loop" /\ chIdx > Len(chapters)
                /\ inFlight = 0
                /\ agentName' = NameVisualsFix
                /\ passInput' = newStructure
                /\ newStructure' = newStructure
                /\ callLog' = <<>>
          /\ pc = "thrown" =>
                (pc' = "thrown" /\ passNo' = passNo /\ callLog' = callLog)]_vars

\* C18, its case: visuals repair has issued a call on an outline that content
\* repair had changed.
C18_VisualsRepairAfterContentWrites ==
    /\ passNo = 2
    /\ agentName = NameVisualsFix
    /\ Len(callLog) > 0
    /\ passInput # callerStructure

\* C18, the failure: content repair threw on a gateway error.
C18_ContentRepairThrew ==
    /\ pc = "thrown"
    /\ op.kind = "step" /\ op.agent.id = "final_draft"
    /\ passNo = 1

\* C19: a regeneration modifies only the sections whose id was selected:
\* every other section of the copy equals the section of the input, whatever
\* keys were returned; for the Outline Builder content and visuals of every
\* section are unchanged, for any other agent the title and the field of the
\* other mode are unchanged.
C19_RegenWritesOnlySelected ==
    (op.kind = "regen" /\ pc \notin {"entry", "idle"}) =>
        \A i \in 1..Len(newStructure) :
            /\ newStructure[i].id \notin op.ids
                  => newStructure[i] = passInput[i]
            /\ IsArchitectName(op.agent.name) =>
                  /\ newStructure[i].content = passInput[i].content
                  /\ newStructure[i].visuals = passInput[i].visuals
            /\ ~IsArchitectName(op.agent.name) =>
                  /\ newStructure[i].title = passInput[i].title
                  /\ IsVisualsName(op.agent.name)
                        => newStructure[i].content = passInput[i].content
                  /\ ~IsVisualsName(op.agent.name)
                        => newStructure[i].visuals = passInput[i].visuals

\* C19, its case: a regeneration returned with a section changed that was
\* not selected.
C19_UnselectedSectionWritten ==
    /\ op.kind = "regen"
    /\ pc = "returned"
    /\ \E i \in 1..Len(newStructure) :
          /\ newStructure[i].id \notin op.ids
          /\ newStructure[i] # passInput[i]

\* The positions of the sections that have content.
FilledIn(structure) ==
    {i \in 1..Len(structure) : ~IsMissing(structure[i], FALSE)}

\* C20: a content pass run again on an outline whose sections all have
\* content leaves the same set of sections with content, for every parsed
\* answer (any subset of ids, any values).
C20_RerunKeepsFilled ==
    pc # "entry" => FilledIn(newStructure) = FilledIn(passInput)

\* C20, its case: the pass returned and a section that had content has none.
C20_FilledSectionEmptied ==
    /\ pc = "returned"
    /\ FilledIn(passInput) = 1..Len(passInput)
    /\ \E i \in 1..Len(newStructure) :
          /\ newStructure[i].content = <<>>
          /\ passInput[i].content = OldText

\* ------------------------------------------------ properties of extractJson

\* The five strategies in their order, each applied to the text.
StrategyValues(t) ==
    <<DirectParse(t), CodeBlockParse(t), UnclosedBlockParse(t),
      BracketParse(t), RepairedParse(t)>>

C13_RepairedReturned ==
    /\ extracted # NotRun
    /\ extracted.kind = "return" /\ extracted.by = 5

\* C14: for every text from which no strategy obtains a value, the empty
\* text included, extractJson throws the error whose message carries the
\* beginning of the text, and returns nothing.
C14_FailsClosed ==
    (extracted # NotRun /\ \A j \in 1..5 : ~StrategyValues(text)[j].ok) =>
        /\ extracted.kind = "throw"
        /\ extracted.msg = FatalJsonMessage(text)

\* C14, its case: the empty text, for which null was returned.
C14_EmptyTextReturnsNull ==
    /\ text = <<>>
    /\ extracted = JsonReturn(JNull, 0)

\* The texts that consist of one well-formed object or array, in a code
\* fence or not, with prose before and after it or not.
ProseLeads == {<<>>, <<"x", " ">>, <<"[", "x", "]", " ">>}

ProseTrails == {<<>>, <<" ", "x">>}

JsonCores == {ObjectText, ArrayText}

Wrappings ==
    {[open |-> <<>>, close |-> <<>>], [open |-> Fence, close |-> Fence],
     [open |-> FenceJson, close |-> Fence]}

OnlyJsonOf(t) ==
    {core \in JsonCores :
        \E lead \in ProseLeads, w \in Wrappings, trail \in ProseTrails :
            t = lead \o w.open \o core \o w.close \o trail}

\* C15: for a text that consists of one well-formed object or array,
\* surrounded by prose or not, in a code fence or not, extractJson returns
\* the value of that object or array.
C15_OnlyJsonIsReturned ==
    extracted # NotRun =>
        \A core \in OnlyJsonOf(text) :
            /\ extracted.kind = "return"
            /\ extracted.v = JSONparse(core).v

\* C15, its case: an object after prose that has brackets in it, and
\* extractJson threw.
C15_BracketedProseThrows ==
    /\ text = <<"[", "x", "]", " ">> \o ObjectText
    /\ extracted # NotRun
    /\ extracted.kind = "throw"

\* ------------------------------------------ properties of runArchitectAgent

\* A section as the outline needs it: an object with a string id, a string
\* title and a level that is a positive integer.
WellFormedSection(v) ==
    /\ v.t = "object"
    /\ Member(v, KwId).has /\ Member(v, KwId).v.t = "string"
    /\ Member(v, KwId).v.s # <<>>
    /\ Member(v, KwTitle).has /\ Member(v, KwTitle).v.t = "string"
    /\ Member(v, KwLevel).has /\ Member(v, KwLevel).v.t = "number"
    /\ Member(v, KwLevel).v.n > 0

\* C12: every outline accepted from the Outline Builder has pairwise
\* distinct identifiers (the outline returned is the outline the application
\* holds from then on).
C12_AcceptedIdsAreDistinct ==
    (archResult # NotRun /\ archResult.kind = "return") =>
        \A i, j \in 1..Len(archResult.structure) :
            (/\ i # j
             /\ Member(archResult.structure[i], KwId).has
             /\ Member(archResult.structure[j], KwId).has)
            => Member(archResult.structure[i], KwId).v
                  # Member(archResult.structure[j], KwId).v

\* C12, its case: an outline of two well-formed sections with one id was
\* returned.
C12_DuplicateIdAccepted ==
    /\ archResult # NotRun
    /\ archResult.kind = "return"
    /\ Len(archResult.structure) = 2
    /\ WellFormedSection(archResult.structure[1])
    /\ archResult.structure[1] = archResult.structure[2]

\* C16: when the gateway answered, runArchitectAgent returns a non-empty
\* list every element of which is a well-formed section, or fails with the
\* error of the Outline Builder.
C16_OutlineOrFailure ==
    (archResult # NotRun /\ archResponse.kind # "error") =>
        \/ /\ archResult.kind = "return"
           /\ Len(archResult.structure) > 0
           /\ \A i \in 1..Len(archResult.structure) :
                 WellFormedSection(archResult.structure[i])
        \/ /\ archResult.kind = "throw"
           /\ archResult.msg = MsgArchitectFailed

\* C16, its case: a list was returned with an element that is no section.
C16_IllFormedElementReturned ==
    /\ archResult # NotRun
    /\ archResult.kind = "return"
    /\ \E i \in 1..Len(archResult.structure) :
          archResult.structure[i].t # "object"

\* ------------------------------------------------------ properties of callLLM

\* C17: a call issues at most one request, and once the ceiling has passed
\* it has ended, on either backend: it returned its text or threw; a call
\* whose timer fired has thrown, the time-out error unless the connection
\* had failed before.
C17_CallEndsByTheCeiling ==
    call # NotRun =>
        /\ call.requests <= 1
        /\ call.elapsed > CeilingTicks => CallSettled
        /\ call.timer = "fired" =>
              (call.pc = "thrown" /\ call.msg \in {MsgTimeout, MsgNetwork})

\* C17, its case: the ceiling has passed and the call on the default backend
\* still waits for generateContent.
C17_DefaultBackendStillWaits ==
    /\ call # NotRun
    /\ call.backend = "default"
    /\ call.pc = "generate"
    /\ call.elapsed > CeilingTicks

\* C17, on the custom endpoint: the ceiling has passed and the call still
\* waits for the body, its timer cleared.
C17_BodyStillAwaited ==
    /\ call # NotRun
    /\ call.backend = "custom"
    /\ call.pc = "body"
    /\ call.timer = "cleared"
    /\ call.elapsed > CeilingTicks

\* C17, what holds: on the custom endpoint a fetch that is pending at the
\* ceiling is aborted and the time-out error is thrown.
C17_FetchTimedOut ==
    /\ call # NotRun
    /\ call.pc = "thrown"
    /\ call.msg = MsgTimeout
    /\ call.elapsed = CeilingTicks

\* C21: in a generation pass every section belongs to exactly one chapter,
\* the batch requested for a chapter lists every section of the chapter,
\* its level-1 root included, and a pass whose calls were all answered with
\* a full mapping returns with every section of every chapter that was not
\* skipped filled in its target field.
C21_EveryChapterSectionFilled ==
    (op.kind = "step" /\ pc # "entry") =>
        /\ \A i \in 1..Len(newStructure) :
              Cardinality({c \in 1..Len(chapters) :
                              i \in ChapterSections(chapters[c])}) = 1
        /\ \A k \in 1..Len(callLog) :
              SeqToSet(callLog[k].batch)
                  = ChapterSections(chapters[callLog[k].ch])
        /\ pc = "returned" =>
              \A c \in 1..Len(chapters) :
                  ~ChapterSkipped(passInput, chapters[c], isVisuals,
                                  onlyMissing)
                  => \A i \in ChapterSections(chapters[c]) :
                        ~IsMissing(newStructure[i], isVisuals)

\* C21, the case that fails: the pass returned with every subsection of a
\* chapter filled and the root of the chapter, which no batch listed, empty.
C21_RootLeftEmpty ==
    /\ op.kind = "step" /\ pc = "returned" /\ ~onlyMissing
    /\ Len(callLog) > 0 /\ lastResp = "object"
    /\ \E c \in 1..Len(chapters) :
          /\ Len(chapters[c].children) > 0
          /\ \A i \in SeqToSet(chapters[c].children) :
                ~IsMissing(newStructure[i], isVisuals)
          /\ IsMissing(newStructure[chapters[c].root], isVisuals)

\* C22: a content-mode write (by a generation pass, by content repair or
\* by a content-mode regeneration) never stores content that begins with
\* the heading marker '#'.
C22_StoredContentHasNoHeading ==
    [][(pc \in {"awaitWhole", "awaitRegen"} /\ ~isVisuals
            /\ ~IsArchitectName(agentName)) =>
          \A i \in 1..Len(newStructure) :
              newStructure'[i].content # newStructure[i].content
                  => ~StartsWith(newStructure'[i].content, <<"#">>)]_vars

\* C22, the case that fails: a content-mode operation returned with a
\* section whose content begins with '#'.
C22_HeadingStored ==
    /\ pc = "returned" /\ lastResp = "object"
    /\ \E i \in 1..Len(newStructure) :
          /\ passInput[i].content = Undefined
          /\ StartsWith(newStructure[i].content, <<"#">>)

\* A complete document: every chapter has a section (root or child) with
\* content and, unless its title is on the visuals skip list, a section
\* with visuals.
CompleteDocument(structure) ==
    \A c \in 1..Len(ChaptersOf(structure)) :
        LET chapter == ChaptersOf(structure)[c]
        IN  /\ \E i \in ChapterSections(chapter) :
                  ~IsMissing(structure[i], FALSE)
            /\ MatchesSkipKeyword(structure[chapter.root].title)
                \/ \E i \in ChapterSections(chapter) :
                      ~IsMissing(structure[i], TRUE)

\* C26: the final agent's step on a complete document issues no gateway
\* call, in its content repair and in its visuals repair, and returns an
\* outline equal to its input.
C26_RepairOfCompleteIsNoOp ==
    (op.kind = "step" /\ op.agent.id = "final_draft" /\ pc # "entry"
        /\ CompleteDocument(callerStructure)) =>
        /\ inFlight = 0
        /\ callLog = <<>>
        /\ pc = "returned" => newStructure = callerStructure

\* C26, the case that fails: the final agent's step on a complete document
\* has a gateway call pending, for a chapter whose root is filled and whose
\* subsections are not.
C26_CompleteDocumentCalled ==
    /\ op.kind = "step" /\ op.agent.id = "final_draft"
    /\ CompleteDocument(callerStructure)
    /\ pc = "awaitWhole" /\ inFlight = 1
    /\ ~IsMissing(callerStructure[chapters[chIdx].root], isVisuals)

\* C23: a gateway error that settles a call of an agent step ends the step
\* with that error: no call is pending and none is issued after it.
C23_GatewayErrorAbortsStep ==
    (op.kind = "step" /\ lastResp = "error") =>
        (pc = "thrown" /\ inFlight = 0)

\* C23, the case that fails: the call settled last failed at the gateway
\* and the pass, without a word from the operator, has a sub-batch call
\* pending.
C23_CallAfterGatewayError ==
    /\ op.kind = "step" /\ lastResp = "error"
    /\ pc = "awaitChunk" /\ inFlight = 1

\* --------------------------------------------- properties of the application

\* An operation settles in this step.
OperationSettles == Cardinality(pending') < Cardinality(pending)

\* The operation that settles in this step.
SettledOperation == CHOOSE o \in pending : o.seq = lastOutcome'.seq

\* C8: when an agent step or a regeneration ends in an error, the
\* application holds the outline it held when the operation started, which
\* is the outline it passed to the operation.
C8_FailureKeepsOutline ==
    [][(OperationSettles /\ ~lastOutcome'.ok)
          => thesisStructure' = SettledOperation.input]_vars

\* C8, the case that fails: a regeneration and an agent step started after
\* it are pending.  The regeneration returns and its result becomes the
\* outline; the step then fails.
C8_StepPendingBesideRegeneration ==
    /\ used.loads = 0
    /\ \E o, q \in pending :
          o.kind = "regen" /\ q.kind = "step" /\ o.seq < q.seq

\* C10: at most one agent step or regeneration is pending, and the result
\* of an operation is not written over an outline written by an operation
\* that started after it.
C10_OneOperationInFlight ==
    /\ [](Cardinality(pending) <= 1)
    /\ [][(OperationSettles /\ lastOutcome'.ok)
            => ~SettledOperation.overtaken]_vars

\* C10, the case that fails: with no session loaded, an agent step that
\* started during a regeneration has returned and the regeneration, started
\* before it, is still pending.
C10_RegenerationOvertaken ==
    /\ used.loads = 0
    /\ \E o \in pending : o.kind = "regen" /\ o.overtaken

\* The sections of the outline that are not selected, in their order.
Unselected ==
    LET kept == {i \in 1..Len(thesisStructure) :
                    thesisStructure[i].id \notin selectedSectionIds}
    IN  [k \in 1..Cardinality(kept) |->
            thesisStructure[CHOOSE i \in kept :
                               Cardinality({j \in kept : j <= i}) = k]]

\* C30: a delete at a checkpoint removes the selected sections and no
\* other, keeps the rest as they were and in their order, clears the
\* selection and leaves the pointer, the flags and the statuses alone; a
\* declined confirmation changes nothing.
C30_DeleteRemovesSelected ==
    [][HandleDeleteSelected =>
          \/ /\ thesisStructure' = Unselected
             /\ selectedSectionIds' = {}
             /\ UNCHANGED <<currentAgentIndex, isPaused, isWorking,
                            agentStatus, pending>>
          \/ UNCHANGED vars]_vars

\* C30, its case: of four sections the second and the third were deleted,
\* the first and the fourth are left in that order.
C30_TwoOfFourDeleted ==
    /\ isPaused /\ selectedSectionIds = {}
    /\ Len(thesisStructure) = 2
    /\ thesisStructure[1].id = SectionIds[1]
    /\ thesisStructure[2].id = SectionIds[4]

\* runAgentStep's catch block: the step that failed leaves its agent in
\* status 'error', the application not working, the pointer where it was,
\* and starts no operation; operations are started by the operator alone.
StepFailureStopsTheRun ==
    [][/\ (OperationSettles /\ ~lastOutcome'.ok
              /\ SettledOperation.kind = "step")
          => /\ agentStatus'[SettledOperation.index + 1] = "error"
             /\ isWorking' = FALSE
             /\ currentAgentIndex' = currentAgentIndex
             /\ isPaused' = isPaused
       /\ Cardinality(pending') > Cardinality(pending)
          => (StartWorkflow \/ HandleContinue \/ HandleRegenerateSelected)
      ]_vars

\* An operation is handed to the service in this step.
OperationStarts == Cardinality(pending') > Cardinality(pending)

\* The operation that starts in this step.
StartedOperation == CHOOSE o \in pending' : o.seq = Cardinality(pending')

LastIndex == Len(agents) - 1

\* C24: the step that starts is the step of the agent the pointer is set
\* to, agent 0 at the start of a workflow and agent i+1 by a continue at a
\* checkpoint with the pointer at i; a step that returns leaves the
\* application paused and not working; the pointer moves by a start (to
\* 0), by a continue (by one, or from the last agent to -1 with the
\* application neither working nor paused) and by a loaded session only,
\* and a continue with the pointer at -1 changes nothing.
C24_LinearPointer ==
    /\ [][(OperationStarts /\ StartedOperation.kind = "step") =>
            /\ StartedOperation.index = currentAgentIndex'
            /\ \/ StartWorkflow /\ currentAgentIndex' = 0
               \/ /\ isPaused
                  /\ currentAgentIndex \in 0..(LastIndex - 1)
                  /\ currentAgentIndex' = currentAgentIndex + 1]_vars
    /\ [][(OperationSettles /\ SettledOperation.kind = "step"
              /\ lastOutcome'.ok)
            => (isPaused' /\ ~isWorking')]_vars
    /\ [][currentAgentIndex' # currentAgentIndex =>
            \/ StartWorkflow /\ currentAgentIndex' = 0
            \/ HandleFileChange
            \/ /\ isPaused
               /\ currentAgentIndex \in 0..(LastIndex - 1)
               /\ currentAgentIndex' = currentAgentIndex + 1
               /\ OperationStarts
            \/ /\ isPaused
               /\ currentAgentIndex = LastIndex
               /\ currentAgentIndex' = -1
               /\ ~isWorking' /\ ~isPaused'
               /\ ~OperationStarts]_vars

\* C24, its case: with no session loaded, the workflow was continued past
\* its last agent and is over with every agent completed.
C24_ContinuedPastTheLastAgent ==
    /\ used.loads = 0
    /\ currentAgentIndex = -1 /\ ~isWorking /\ ~isPaused
    /\ \A i \in 1..Len(agents) : agentStatus[i] = "completed"

\* The application shows a checkpoint with the pointer at -1: a step that
\* was pending when the workflow was continued past its last agent has
\* returned.
CheckpointWithoutPointer == isPaused /\ currentAgentIndex = -1

\* The agents in status 'working', as positions in the list.
WorkingAgents ==
    {i \in 1..Len(agents) : agentStatus[i] = "working"}

\* C27: at most one agent is in status 'working', and an agent is in that
\* status only while its step is pending and the working flag is set.
C27_OneWorkingAgent ==
    /\ Cardinality(WorkingAgents) <= 1
    /\ \A i \in WorkingAgents :
          /\ isWorking
          /\ \E o \in pending : o.kind = "step" /\ o.index = i - 1

\* C27, the case that fails: with no session loaded, an agent is in
\* status 'working', its step is pending, and the working flag is not set:
\* a regeneration that was pending when the step started has settled.
C27_WorkingAgentFlagCleared ==
    /\ used.loads = 0
    /\ ~isWorking
    /\ \E i \in WorkingAgents :
          \E o \in pending : o.kind = "step" /\ o.index = i - 1

\* C28: while the application is working or paused no agent is inserted
\* into the list and none is removed from it.
C28_AgentListLocked ==
    [][(isWorking \/ isPaused) => agents' = agents]_vars

\* C28, the case that fails: the application is working or paused, and the
\* list holds the custom agent in status 'idle' beside agents that were
\* there when the workflow started: it was inserted after the start.
C28_AgentInsertedWhileLocked ==
    /\ isWorking \/ isPaused
    /\ ~isAddModalOpen
    /\ \E i, j \in 1..Len(agents) :
          /\ agents[i].id = AgentCustom.id
          /\ agentStatus[i] = "idle"
          /\ agentStatus[j] \in {"working", "completed"}

\* A workflow has been started and is not over.
Started == currentAgentIndex # -1

\* The workflow is over: the pointer is back at -1, the application is
\* neither working nor paused, every agent is completed.
Finished ==
    /\ currentAgentIndex = -1
    /\ ~isWorking
    /\ ~isPaused
    /\ \A i \in 1..Len(agents) : agentStatus[i] = "completed"

\* The workflow is aborted: an agent is in status 'error' and the
\* application is not working.
Aborted ==
    /\ ~isWorking
    /\ \E i \in 1..Len(agents) : agentStatus[i] = "error"

\* C29: a workflow that was started is over or aborted in the end.
C29_WorkflowEnds == Started ~> (Finished \/ Aborted)

\* The run has ended at a checkpoint that no continue leaves.
C29_CheckpointAfterTheEnd ==
    /\ currentAgentIndex = -1
    /\ isPaused
    /\ ~isWorking
    /\ pending = {}
    /\ ~Finished
    /\ ~Aborted
    /\ ~ENABLED <<NextRun>>_vars

\* The FileReader is reading the file saved last.
SavedFileRead ==
    /\ reading # <<>>
    /\ sessionFile # <<>>
    /\ reading[1] = sessionFile

\* The FileReader is reading a file that is no session file.
ForeignFileRead ==
    /\ reading # <<>>
    /\ reading[1] \in ForeignFiles

\* The state is as it was when the file was saved, the logs left aside,
\* and nothing is working.
RestoredBesideLogs ==
    /\ input' = savedValues[1].input
    /\ agents' = savedValues[1].agents
    /\ agentStatus' = savedValues[1].agentStatus
    /\ thesisStructure' = savedValues[1].thesisStructure
    /\ docHistory' = savedValues[1].docHistory
    /\ currentAgentIndex' = savedValues[1].currentAgentIndex
    /\ isPaused' = savedValues[1].isPaused
    /\ isWorking' = FALSE

\* C25 as stated: loading the file saved last restores the input, the
\* agents with their statuses, the outline, the history, the logs, the
\* pointer and the paused flag to exactly the saved values and sets working
\* to false; a file that is no JSON or lacks the input or the outline leaves
\* the application state unchanged.
C25_RoundTripExact ==
    [][ReaderOnload =>
          /\ SavedFileRead =>
                (RestoredBesideLogs /\ logs' = savedValues[1].logs)
          /\ ForeignFileRead => UNCHANGED SessionState]_vars

\* C25, amended: as above, but the logs are the saved logs followed by the
\* line that reports the load.
C25_RoundTripWithLoadLine ==
    [][ReaderOnload =>
          /\ SavedFileRead =>
                /\ RestoredBesideLogs
                /\ \E time \in Times :
                      logs' = Append(savedValues[1].logs,
                                     LogLine(time, MsgLoaded, "success"))
          /\ ForeignFileRead => UNCHANGED SessionState]_vars

\* A saved file with escapes in it has been loaded.
C25_SessionLoadedAfterReload ==
    /\ savedValues # <<>>
    /\ used.loads > 0
    /\ reading = <<>>
    /\ input = savedValues[1].input
    /\ thesisStructure = savedValues[1].thesisStructure
    /\ thesisStructure[1].content = QuotedText
    /\ currentAgentIndex = savedValues[1].currentAgentIndex
    /\ isPaused
    /\ ~isWorking
    /\ pending = {}
    /\ Len(logs) = Len(savedValues[1].logs) + 1
    /\ logs[Len(logs)].message = MsgLoaded

====
